---- MODULE Spec2Model ----
(***************************************************************************)
(* Model of the i2c-character-display driver: the HD44780 adapter layer    *)
(* (bit packing per adapter, nibble/byte write protocol, initialisation)   *)
(* and the HD44780 controller state machine that sits on top of it.        *)
(*                                                                         *)
(* Every driver call is one action.  A call is computed by operators that  *)
(* mirror the Rust functions one to one; they thread a "machine" record m  *)
(* holding the adapter's signal byte, the stored mode bytes, the bus       *)
(* transactions issued so far and the pending error (Rust's `?`).          *)
(***************************************************************************)
EXTENDS Integers, Sequences, FiniteSets, TLC

VARIABLES
    adapter,            \* which HD44780AdapterTrait implementation is in use
    lcd_type,           \* DeviceSetupConfig.lcd_type
    i2c_address,        \* DeviceSetupConfig.address
    bits,               \* the adapter's bit field (u8)
    display_function,   \* HD44780.display_function[MAX_CONTROLLER_COUNT]
    display_control,    \* HD44780.display_control[MAX_CONTROLLER_COUNT]
    display_mode,       \* HD44780.display_mode[MAX_CONTROLLER_COUNT]
    active_controller,  \* HD44780.active_controller
    op,                 \* the last call: [name, args]
    result,             \* what the last call returned: "Ok" or the error
    output,             \* the value the last call returned or the buffer it
                        \* filled, as a sequence; <<>> when it has neither
    bus,                \* bus transactions and delays issued by the last call
    lcd_control         \* the display's side: the last DISPLAY-CONTROL command
                        \* each controller received, 0 when it received none

vars == <<adapter, lcd_type, i2c_address, bits, display_function,
          display_control, display_mode, active_controller, op, result, output,
          bus, lcd_control>>

config == <<adapter, lcd_type, i2c_address>>
driver == <<display_function, display_control, display_mode, active_controller>>

----------------------------------------------------------------------------
(* Constants of src/driver/hd44780.rs *)

LCD_CMD_CLEARDISPLAY == 1
LCD_CMD_RETURNHOME == 2
LCD_CMD_ENTRYMODESET == 4
LCD_CMD_DISPLAYCONTROL == 8
LCD_CMD_CURSORSHIFT == 16
LCD_CMD_FUNCTIONSET == 32
LCD_CMD_SETCGRAMADDR == 64
LCD_CMD_SETDDRAMADDR == 128

LCD_FLAG_ENTRYRIGHT == 0
LCD_FLAG_ENTRYLEFT == 2
LCD_FLAG_ENTRYSHIFTINCREMENT == 1
LCD_FLAG_ENTRYSHIFTDECREMENT == 0

LCD_FLAG_DISPLAYON == 4
LCD_FLAG_CURSORON == 2
LCD_FLAG_CURSOROFF == 0
LCD_FLAG_BLINKON == 1
LCD_FLAG_BLINKOFF == 0

LCD_FLAG_DISPLAYMOVE == 8
LCD_FLAG_MOVERIGHT == 4
LCD_FLAG_MOVELEFT == 0

LCD_FLAG_4BITMODE == 0
LCD_FLAG_2LINE == 8
LCD_FLAG_5x8_DOTS == 0

MAX_CONTROLLER_COUNT == 2

----------------------------------------------------------------------------
(* u8 arithmetic *)

Bit(b, i) == (b \div (2 ^ i)) % 2

\* a | b on u8
BitOr(a, b) ==
    LET RECURSIVE Or(_)
        Or(i) == IF i > 7 THEN 0
                 ELSE (IF Bit(a, i) = 1 \/ Bit(b, i) = 1 THEN 2 ^ i ELSE 0) + Or(i + 1)
    IN Or(0)

\* a & !b on u8
BitAndNot(a, b) ==
    LET RECURSIVE An(_)
        An(i) == IF i > 7 THEN 0
                 ELSE (IF Bit(a, i) = 1 /\ Bit(b, i) = 0 THEN 2 ^ i ELSE 0) + An(i + 1)
    IN An(0)

\* a & b on u8
BitAnd(a, b) ==
    LET RECURSIVE An(_)
        An(i) == IF i > 7 THEN 0
                 ELSE (IF Bit(a, i) = 1 /\ Bit(b, i) = 1 THEN 2 ^ i ELSE 0) + An(i + 1)
    IN An(0)

\* the bitfield! getter of bits msb..lsb
GetField(b, msb, lsb) == (b \div (2 ^ lsb)) % (2 ^ (msb - lsb + 1))

\* the bitfield! setter of bits msb..lsb: the value is masked to the field
SetField(b, msb, lsb, v) ==
    b - GetField(b, msb, lsb) * (2 ^ lsb) + (v % (2 ^ (msb - lsb + 1))) * (2 ^ lsb)

BoolToU8(v) == IF v THEN 1 ELSE 0

----------------------------------------------------------------------------
(* LcdDisplayType, src/lib.rs *)

LcdDisplayType ==
    {"Lcd20x4", "Lcd20x2", "Lcd16x2", "Lcd16x4", "Lcd8x2", "Lcd40x2", "Lcd40x4"}

rows(t) ==
    CASE t = "Lcd20x4" -> 4
      [] t = "Lcd20x2" -> 2
      [] t = "Lcd16x2" -> 2
      [] t = "Lcd16x4" -> 4
      [] t = "Lcd8x2" -> 2
      [] t = "Lcd40x2" -> 2
      [] t = "Lcd40x4" -> 4

cols(t) ==
    CASE t = "Lcd20x4" -> 20
      [] t = "Lcd20x2" -> 20
      [] t = "Lcd16x2" -> 16
      [] t = "Lcd16x4" -> 16
      [] t = "Lcd8x2" -> 8
      [] t = "Lcd40x2" -> 40
      [] t = "Lcd40x4" -> 40

\* mutant: every row in a 0x40 block of its own
row_offsets_linear(t) == [i \in 0..3 |-> i * 64]

\* the array is indexed from 0 as in the source
row_offsets(t) ==
    CASE t = "Lcd20x4" -> [i \in 0..3 |-> <<0, 64, 20, 84>>[i + 1]]
      [] t = "Lcd20x2" -> [i \in 0..3 |-> <<0, 64, 0, 64>>[i + 1]]
      [] t = "Lcd16x2" -> [i \in 0..3 |-> <<0, 64, 16, 80>>[i + 1]]
      [] t = "Lcd16x4" -> [i \in 0..3 |-> <<0, 64, 16, 80>>[i + 1]]
      [] t = "Lcd8x2" -> [i \in 0..3 |-> <<0, 64, 0, 64>>[i + 1]]
      [] t = "Lcd40x2" -> [i \in 0..3 |-> <<0, 64, 0, 64>>[i + 1]]
      [] t = "Lcd40x4" -> [i \in 0..3 |-> <<0, 64, 0, 64>>[i + 1]]

----------------------------------------------------------------------------
(* The three HD44780 adapters *)

Adapters == {"GenericPCF8574T", "AdafruitLCDBackpack", "DualHD44780_PCF8574T"}

default_i2c_address(a) == IF a = "AdafruitLCDBackpack" THEN 32 ELSE 39

\* mutant: every adapter claims it can read
supports_reads_all(a) == TRUE

supports_reads(a) == a = "GenericPCF8574T"

controller_count(a) == IF a = "DualHD44780_PCF8574T" THEN 2 ELSE 1

max_controller_count(a) == IF a = "DualHD44780_PCF8574T" THEN 2 ELSE 1

\* mutant: every adapter accepts every geometry
is_supported_any(a, t) == TRUE

is_supported(a, t) ==
    IF a = "DualHD44780_PCF8574T" THEN t = "Lcd40x4" ELSE t # "Lcd40x4"

\* mutant: every row belongs to controller 0
row_to_controller_row_identity(a, row) == <<0, row>>

\* mutant: the two-controller split applied by every adapter
row_to_controller_row_split(a, row) ==
    IF row < 2 THEN <<0, row>> ELSE <<1, row - 2>>

row_to_controller_row(a, row) ==
    IF a = "DualHD44780_PCF8574T"
    THEN (IF row < 2 THEN <<0, row>> ELSE <<1, row - 2>>)
    ELSE <<0, row>>

----------------------------------------------------------------------------
(* The machine record threaded through one call.                           *)
(*   err   "Ok" until a step fails; every later step is then skipped, as   *)
(*         `?` returns from the enclosing functions                        *)
(*   fuel  k when the k-th bus transaction from here is the one the bus     *)
(*         refuses; 0 when the bus refuses none in this call               *)
(*   input the bytes the bus returns to the reads of this call, in order   *)
(*   data_buf  the one-byte buffer the last bus read filled                *)
(*   busy  what the last is_busy returned                                  *)
(*   ret   the value the call returns, or the caller's buffer              *)

Machine(f) ==
    [bits |-> bits,
     display_function |-> display_function,
     display_control |-> display_control,
     display_mode |-> display_mode,
     active_controller |-> active_controller,
     bus |-> <<>>,
     err |-> "Ok",
     fuel |-> f,
     input |-> <<>>,
     data_buf |-> 0,
     busy |-> FALSE,
     ret |-> <<>>]

\* the machine of a call during which the bus returns the bytes of input
ReadMachine(f, input) == [Machine(f) EXCEPT !.input = input]

Fail(m, e) == IF m.err # "Ok" THEN m ELSE [m EXCEPT !.err = e]

\* a write that is issued again after the bus has refused it
i2c_write_retry(m, data) ==
    IF m.err # "Ok" THEN m
    ELSE IF m.fuel = 1
    THEN [m EXCEPT !.bus = @ \o <<[kind |-> "write", addr |-> i2c_address,
                                   data |-> data, ok |-> FALSE],
                                  [kind |-> "write", addr |-> i2c_address,
                                   data |-> data, ok |-> TRUE]>>,
                   !.fuel = 0]
    ELSE [m EXCEPT !.bus = Append(@, [kind |-> "write", addr |-> i2c_address,
                                       data |-> data, ok |-> TRUE]),
                   !.fuel = IF @ > 1 THEN @ - 1 ELSE @]

\* I2c::write(address, data)
i2c_write(m, data) ==
    IF m.err # "Ok" THEN m
    ELSE IF m.fuel = 1
    THEN [m EXCEPT !.bus = Append(@, [kind |-> "write", addr |-> i2c_address,
                                       data |-> data, ok |-> FALSE]),
                   !.err = "I2cError"]
    ELSE [m EXCEPT !.bus = Append(@, [kind |-> "write", addr |-> i2c_address,
                                       data |-> data, ok |-> TRUE]),
                   !.fuel = IF @ > 1 THEN @ - 1 ELSE @]

\* DelayNs::delay_us / delay_ms, in microseconds
\* I2c::read(address, &mut data_buf) with a one-byte buffer; the bus
\* returns the next byte of input (a bus with nothing to return refuses)
i2c_read(m) ==
    IF m.err # "Ok" THEN m
    ELSE IF m.fuel = 1 \/ m.input = <<>>
    THEN [m EXCEPT !.bus = Append(@, [kind |-> "read", addr |-> i2c_address,
                                       data |-> <<>>, ok |-> FALSE]),
                   !.err = "I2cError"]
    ELSE [m EXCEPT !.bus = Append(@, [kind |-> "read", addr |-> i2c_address,
                                       data |-> <<Head(m.input)>>, ok |-> TRUE]),
                   !.data_buf = Head(m.input),
                   !.input = Tail(@),
                   !.fuel = IF @ > 1 THEN @ - 1 ELSE @]

delay_us(m, us) ==
    IF m.err # "Ok" THEN m
    ELSE [m EXCEPT !.bus = Append(@, [kind |-> "delay", us |-> us])]

\* a delay of as many microseconds as the milliseconds asked for
delay_ms_as_us(m, ms) == delay_us(m, ms)

delay_ms(m, ms) == delay_us(m, ms * 1000)

----------------------------------------------------------------------------
(* Bit field setters of the adapters.  They act on the adapter's bit field  *)
(* b (u8) alone; set_enable also returns the Result.                       *)

\* mutant: every adapter has register select on bit 0
set_rs_bit0(b, value) == SetField(b, 0, 0, BoolToU8(value))

set_rs(b, value) ==
    IF adapter = "AdafruitLCDBackpack"
    THEN SetField(b, 1, 1, BoolToU8(value))
    ELSE SetField(b, 0, 0, BoolToU8(value))

set_rw(b, value) ==
    IF adapter = "GenericPCF8574T"
    THEN SetField(b, 1, 1, BoolToU8(value))
    ELSE b

\* mutant: the dual adapter drives controller 0 from bit 1 and controller 1
\* from bit 2
set_enable_swapped(b, value, controller) ==
    IF adapter = "DualHD44780_PCF8574T"
    THEN (IF controller = 0
          THEN [err |-> "Ok", bits |-> SetField(b, 1, 1, BoolToU8(value))]
          ELSE IF controller = 1
          THEN [err |-> "Ok", bits |-> SetField(b, 2, 2, BoolToU8(value))]
          ELSE [err |-> "BadDeviceId", bits |-> b])
    ELSE (IF controller # 0
          THEN [err |-> "BadDeviceId", bits |-> b]
          ELSE [err |-> "Ok", bits |-> SetField(b, 2, 2, BoolToU8(value))])

\* mutant: the single-controller adapters ignore the controller index
set_enable_unchecked(b, value, controller) ==
    IF adapter = "DualHD44780_PCF8574T"
    THEN (IF controller = 0
          THEN [err |-> "Ok", bits |-> SetField(b, 2, 2, BoolToU8(value))]
          ELSE IF controller = 1
          THEN [err |-> "Ok", bits |-> SetField(b, 1, 1, BoolToU8(value))]
          ELSE [err |-> "BadDeviceId", bits |-> b])
    ELSE [err |-> "Ok", bits |-> SetField(b, 2, 2, BoolToU8(value))]

set_enable(b, value, controller) ==
    IF adapter = "DualHD44780_PCF8574T"
    THEN (IF controller = 0
          THEN [err |-> "Ok", bits |-> SetField(b, 2, 2, BoolToU8(value))]
          ELSE IF controller = 1
          THEN [err |-> "Ok", bits |-> SetField(b, 1, 1, BoolToU8(value))]
          ELSE [err |-> "BadDeviceId", bits |-> b])
    ELSE (IF controller # 0
          THEN [err |-> "BadDeviceId", bits |-> b]
          ELSE [err |-> "Ok", bits |-> SetField(b, 2, 2, BoolToU8(value))])

\* mutant: the data nibble is placed in the low half of the byte
set_data_low_half(b, value) == SetField(b, 3, 0, value)

set_data(b, value) ==
    IF adapter = "AdafruitLCDBackpack"
    THEN SetField(b, 6, 3, value)
    ELSE SetField(b, 7, 4, value)

write_bits_to_gpio(m) ==
    IF adapter = "AdafruitLCDBackpack"
    THEN i2c_write(m, <<9, m.bits>>)
    ELSE i2c_write(m, <<m.bits>>)

set_backlight(m, value) ==
    IF m.err # "Ok" THEN m
    ELSE IF adapter = "AdafruitLCDBackpack"
    THEN write_bits_to_gpio([m EXCEPT !.bits = SetField(@, 7, 7, BoolToU8(value))])
    ELSE write_bits_to_gpio([m EXCEPT !.bits = SetField(@, 3, 3, BoolToU8(value))])

\* mutant: no adapter programs an I/O direction register
hardware_init_noop(m) == m

hardware_init(m) ==
    IF adapter = "AdafruitLCDBackpack" THEN i2c_write(m, <<0, 0>>) ELSE m

----------------------------------------------------------------------------
(* Nibble/byte protocol engine, HD44780AdapterTrait *)

\* `self.set_enable(value, controller)?; self.write_bits_to_gpio()?;` where
\* e is the outcome of set_enable
write_enable(m, e) ==
    IF e.err # "Ok" THEN [m EXCEPT !.err = e.err]
    ELSE write_bits_to_gpio([m EXCEPT !.bits = e.bits])

enable_and_write(m, value, controller) ==
    IF m.err # "Ok" THEN m
    ELSE write_enable(m, set_enable(m.bits, value, controller))

write_nibble_to_controller(m, controller, rs_setting, value) ==
    IF m.err # "Ok" THEN m
    ELSE enable_and_write(
             enable_and_write(
                 [m EXCEPT !.bits = set_data(set_rw(set_rs(@, rs_setting), FALSE),
                                             value % 16)],
                 TRUE, controller),
             FALSE, controller)

\* mutant: low nibble first
write_byte_to_controller_low_first(m, controller, rs_setting, value) ==
    LET m1 == write_nibble_to_controller(m, controller, rs_setting, value % 16)
    IN write_nibble_to_controller(m1, controller, rs_setting, value \div 16)

write_byte_to_controller(m, controller, rs_setting, value) ==
    LET m1 == write_nibble_to_controller(m, controller, rs_setting, value \div 16)
    IN write_nibble_to_controller(m1, controller, rs_setting, value % 16)

adapter_send_command_to_controller(m, controller, command) ==
    write_byte_to_controller(m, controller, FALSE, command)

----------------------------------------------------------------------------
(* The read protocol.  Only GenericPCF8574TAdapter implements it; the     *)
(* other adapters keep the trait's defaults.  The reads work on a clone    *)
(* of the bit field (a u8, generic layout), which they write to the bus    *)
(* themselves; self.bits is not assigned.                                  *)

\* is_busy: `setup`, the clone with DATA all high, RS 0, RW 1, ENABLE 0
busy_setup(b) == SetField(SetField(SetField(SetField(b, 7, 4, 15), 0, 0, 0), 1, 1, 1), 2, 2, 0)

\* the busy flag taken from bit 2 of the nibble read
busy_result_bit2(m) ==
    IF m.err # "Ok" THEN m
    ELSE [m EXCEPT !.busy = (BitAnd(GetField(m.data_buf, 7, 4), 4) # 0)]

\* the busy flag reported set whatever the nibble read
busy_result_stuck(m) ==
    IF m.err # "Ok" THEN m
    ELSE [m EXCEPT !.busy = TRUE]

\* `Ok(read_data.data() & 0b1000 != 0)`
busy_result(m) ==
    IF m.err # "Ok" THEN m
    ELSE [m EXCEPT !.busy = (BitAnd(GetField(m.data_buf, 7, 4), 8) # 0)]

\* mutant: the poll ends after the first enable cycle
is_busy_one_cycle(m) ==
    IF m.err # "Ok" THEN m
    ELSE IF adapter # "GenericPCF8574T" THEN [m EXCEPT !.busy = FALSE]
    ELSE busy_result(
             i2c_write(
                 i2c_read(
                     i2c_write(
                         i2c_write(m, <<busy_setup(m.bits)>>),
                         <<SetField(busy_setup(m.bits), 2, 2, 1)>>)),
                 <<busy_setup(m.bits)>>))

is_busy(m) ==
    IF m.err # "Ok" THEN m
    ELSE IF adapter # "GenericPCF8574T" THEN [m EXCEPT !.busy = FALSE]
    ELSE busy_result(
             i2c_write(
                 i2c_write(
                     i2c_write(
                         i2c_read(
                             i2c_write(
                                 i2c_write(m, <<busy_setup(m.bits)>>),
                                 <<SetField(busy_setup(m.bits), 2, 2, 1)>>)),
                         <<busy_setup(m.bits)>>),
                     <<SetField(busy_setup(m.bits), 2, 2, 1)>>),
                 <<busy_setup(m.bits)>>))

\* `while self.is_busy()? {}`
RECURSIVE while_is_busy(_)
still_busy(m) ==
    IF m.err # "Ok" THEN m
    ELSE IF m.busy THEN while_is_busy(m) ELSE m

while_is_busy(m) == still_busy(is_busy(m))

\* the read set-up byte built from a cleared bit field, not from the clone
read_setup_fresh(b, rs_setting) ==
    SetField(SetField(SetField(SetField(0, 7, 4, 15), 2, 2, 0), 0, 0, BoolToU8(rs_setting)), 1, 1, 1)

\* read_bytes_from_controller: `data_cntl`, the clone with DATA all high,
\* ENABLE 0, RS as asked, RW 1
read_setup(b, rs_setting) ==
    SetField(SetField(SetField(SetField(b, 7, 4, 15), 2, 2, 0), 0, 0, BoolToU8(rs_setting)), 1, 1, 1)

\* enable high, bus read, enable low
read_nibble(m, data_cntl) ==
    i2c_write(i2c_read(i2c_write(m, <<SetField(data_cntl, 2, 2, 1)>>)), <<data_cntl>>)

\* `*byte = 0;`
clear_byte(m, i) ==
    IF m.err # "Ok" THEN m ELSE [m EXCEPT !.ret[i] = 0]

\* `*byte = GenericPCF8574TBitField(data_buf[0]).data() << 4;`
store_high_nibble(m, i) ==
    IF m.err # "Ok" THEN m
    ELSE [m EXCEPT !.ret[i] = (GetField(m.data_buf, 7, 4) * 16) % 256]

\* mutant: the low nibble is taken from bits 3..0 of the byte read
store_low_nibble_raw(m, i) ==
    IF m.err # "Ok" THEN m
    ELSE [m EXCEPT !.ret[i] = BitOr(@, BitAnd(m.data_buf, 15))]

\* `*byte |= GenericPCF8574TBitField(data_buf[0]).data() & 0x0F;`
store_low_nibble(m, i) ==
    IF m.err # "Ok" THEN m
    ELSE [m EXCEPT !.ret[i] = BitOr(@, BitAnd(GetField(m.data_buf, 7, 4), 15))]

\* the busy flag polled again before every byte of the buffer
RECURSIVE read_bytes_from_polling(_, _, _)
read_bytes_from_polling(m, data_cntl, i) ==
    IF m.err # "Ok" \/ i > Len(m.ret) THEN m
    ELSE read_bytes_from_polling(
             store_low_nibble(
                 read_nibble(
                     store_high_nibble(
                         read_nibble(clear_byte(while_is_busy(m), i), data_cntl), i),
                     data_cntl),
                 i),
             data_cntl, i + 1)

\* `for byte in buffer`, from the i-th byte on
RECURSIVE read_bytes_from(_, _, _)
read_bytes_from(m, data_cntl, i) ==
    IF m.err # "Ok" \/ i > Len(m.ret) THEN m
    ELSE read_bytes_from(
             store_low_nibble(
                 read_nibble(
                     store_high_nibble(read_nibble(clear_byte(m, i), data_cntl), i),
                     data_cntl),
                 i),
             data_cntl, i + 1)

\* the caller's buffer is m.ret
read_bytes_from_controller(m, controller, rs_setting) ==
    IF m.err # "Ok" THEN m
    ELSE IF adapter # "GenericPCF8574T" THEN Fail(m, "Panic")
    ELSE IF controller # 0 THEN Fail(m, "BadDeviceId")
    ELSE read_bytes_from(
             i2c_write(while_is_busy(m), <<read_setup(m.bits, rs_setting)>>),
             read_setup(m.bits, rs_setting), 1)

----------------------------------------------------------------------------

init_display_function == BitOr(BitOr(LCD_FLAG_4BITMODE, LCD_FLAG_2LINE), LCD_FLAG_5x8_DOTS)
init_display_control == BitOr(BitOr(LCD_FLAG_DISPLAYON, LCD_FLAG_CURSOROFF), LCD_FLAG_BLINKOFF)
init_display_mode == BitOr(LCD_FLAG_ENTRYLEFT, LCD_FLAG_ENTRYSHIFTDECREMENT)

\* mutant: the reset nibble is sent twice, not three times
adapter_init_controller_two_resets(m, controller) ==
    IF m.err # "Ok" THEN m
    ELSE IF controller >= max_controller_count(adapter) THEN Fail(m, "BadDeviceId")
    ELSE
    LET m1 == write_nibble_to_controller(m, controller, FALSE, 3)
        m2 == delay_ms(m1, 5)
        m3 == write_nibble_to_controller(m2, controller, FALSE, 3)
        m6 == delay_us(m3, 150)
        m7 == write_nibble_to_controller(m6, controller, FALSE, 2)
        m8 == adapter_send_command_to_controller(m7, controller,
                  BitOr(LCD_CMD_FUNCTIONSET, init_display_function))
        m9 == adapter_send_command_to_controller(m8, controller,
                  BitOr(LCD_CMD_DISPLAYCONTROL, init_display_control))
        m10 == adapter_send_command_to_controller(m9, controller,
                  BitOr(LCD_CMD_ENTRYMODESET, init_display_mode))
        m11 == adapter_send_command_to_controller(m10, controller, LCD_CMD_CLEARDISPLAY)
    IN adapter_send_command_to_controller(m11, controller, LCD_CMD_RETURNHOME)

\* the body of the `for controller in 0..controller_count()` loop of adapter_init
adapter_init_controller(m, controller) ==
    IF m.err # "Ok" THEN m
    ELSE IF controller >= max_controller_count(adapter) THEN Fail(m, "BadDeviceId")
    ELSE
    LET m1 == write_nibble_to_controller(m, controller, FALSE, 3)
        m2 == delay_ms(m1, 5)
        m3 == write_nibble_to_controller(m2, controller, FALSE, 3)
        m4 == delay_ms(m3, 5)
        m5 == write_nibble_to_controller(m4, controller, FALSE, 3)
        m6 == delay_us(m5, 150)
        m7 == write_nibble_to_controller(m6, controller, FALSE, 2)
        m8 == adapter_send_command_to_controller(m7, controller,
                  BitOr(LCD_CMD_FUNCTIONSET, init_display_function))
        m9 == adapter_send_command_to_controller(m8, controller,
                  BitOr(LCD_CMD_DISPLAYCONTROL, init_display_control))
        m10 == adapter_send_command_to_controller(m9, controller,
                  BitOr(LCD_CMD_ENTRYMODESET, init_display_mode))
        m11 == adapter_send_command_to_controller(m10, controller, LCD_CMD_CLEARDISPLAY)
    IN adapter_send_command_to_controller(m11, controller, LCD_CMD_RETURNHOME)

\* `for controller in 0..Self::controller_count()` of adapter_init, from
\* `controller` on
RECURSIVE adapter_init_controllers(_, _)
adapter_init_controllers(m, controller) ==
    IF controller >= controller_count(adapter) THEN m
    ELSE adapter_init_controllers(adapter_init_controller(m, controller), controller + 1)

\* mutant: the backlight is switched on before the controllers are initialised
adapter_init_backlight_first(m) ==
    IF ~is_supported(adapter, lcd_type) THEN Fail(m, "UnsupportedDisplayType")
    ELSE
    LET m1 == hardware_init(m)
        m2 == set_backlight(m1, TRUE)
    IN adapter_init_controllers(m2, 0)

\* mutant: the geometry is checked after the hardware initialisation
adapter_init_check_late(m) ==
    LET m0 == hardware_init(m)
    IN IF ~is_supported(adapter, lcd_type) THEN Fail(m0, "UnsupportedDisplayType")
       ELSE
       LET m2 == adapter_init_controllers(m0, 0)
       IN set_backlight(m2, TRUE)

adapter_init(m) ==
    IF ~is_supported(adapter, lcd_type) THEN Fail(m, "UnsupportedDisplayType")
    ELSE
    LET m1 == hardware_init(m)
        m2 == adapter_init_controllers(m1, 0)
    IN set_backlight(m2, TRUE)

----------------------------------------------------------------------------
(* HD44780 controller state machine, src/driver/hd44780.rs.                *)
(* The stored arrays have MAX_CONTROLLER_COUNT entries; indexing past them *)
(* is Rust's bounds-check panic.                                           *)

init_display_state(m, df, dc, dm) ==
    IF m.err # "Ok" THEN m
    ELSE
    LET n == controller_count(adapter)
    IN [m EXCEPT !.display_function = [c \in 0..(MAX_CONTROLLER_COUNT - 1) |->
                                          IF c < n THEN df ELSE @[c]],
                 !.display_control = [c \in 0..(MAX_CONTROLLER_COUNT - 1) |->
                                          IF c < n THEN dc ELSE @[c]],
                 !.display_mode = [c \in 0..(MAX_CONTROLLER_COUNT - 1) |->
                                          IF c < n THEN dm ELSE @[c]],
                 !.active_controller = 0]

\* init storing the display state before the adapter has initialised
init_state_first(m) ==
    adapter_init(init_display_state(m, init_display_function,
                                    init_display_control, init_display_mode))

\* BaseCharacterDisplay::init
init(m) ==
    init_display_state(adapter_init(m), init_display_function,
                       init_display_control, init_display_mode)

send_command_to_controller(m, controller, command) ==
    write_byte_to_controller(m, controller, FALSE, command)

clear_controller(m, controller) ==
    delay_ms(send_command_to_controller(m, controller, LCD_CMD_CLEARDISPLAY), 2)

home_controller(m, controller) ==
    delay_ms(send_command_to_controller(m, controller, LCD_CMD_RETURNHOME), 2)

set_cursor_controller(m, controller, col, row) ==
    IF m.err # "Ok" THEN m
    ELSE IF row >= rows(lcd_type) THEN Fail(m, "RowOutOfRange")
    ELSE IF col >= cols(lcd_type) THEN Fail(m, "ColumnOutOfRange")
    ELSE send_command_to_controller(m, controller,
             BitOr(LCD_CMD_SETDDRAMADDR, (col + row_offsets(lcd_type)[row]) % 256))

show_cursor_controller(m, controller, show_cursor) ==
    IF m.err # "Ok" THEN m
    ELSE IF controller >= MAX_CONTROLLER_COUNT THEN Fail(m, "Panic")
    ELSE
    LET m1 == [m EXCEPT !.display_control[controller] =
                   IF show_cursor THEN BitOr(@, LCD_FLAG_CURSORON)
                   ELSE BitAndNot(@, LCD_FLAG_CURSORON)]
    IN send_command_to_controller(m1, controller,
           BitOr(LCD_CMD_DISPLAYCONTROL, m1.display_control[controller]))

blink_cursor_controller(m, controller, blink_cursor) ==
    IF m.err # "Ok" THEN m
    ELSE IF controller >= MAX_CONTROLLER_COUNT THEN Fail(m, "Panic")
    ELSE
    LET m1 == [m EXCEPT !.display_control[controller] =
                   IF blink_cursor THEN BitOr(@, LCD_FLAG_BLINKON)
                   ELSE BitAndNot(@, LCD_FLAG_BLINKON)]
    IN send_command_to_controller(m1, controller,
           BitOr(LCD_CMD_DISPLAYCONTROL, m1.display_control[controller]))

\* the stored control byte restored when the command is not delivered
show_display_controller_rollback(m, controller, show_display) ==
    IF m.err # "Ok" THEN m
    ELSE IF controller >= MAX_CONTROLLER_COUNT THEN Fail(m, "Panic")
    ELSE
    LET m1 == [m EXCEPT !.display_control[controller] =
                   IF show_display THEN BitOr(@, LCD_FLAG_DISPLAYON)
                   ELSE BitAndNot(@, LCD_FLAG_DISPLAYON)]
        m2 == send_command_to_controller(m1, controller,
                  BitOr(LCD_CMD_DISPLAYCONTROL, m1.display_control[controller]))
    IN IF m2.err # "Ok" THEN [m2 EXCEPT !.display_control = m.display_control]
       ELSE m2

show_display_controller(m, controller, show_display) ==
    IF m.err # "Ok" THEN m
    ELSE IF controller >= MAX_CONTROLLER_COUNT THEN Fail(m, "Panic")
    ELSE
    LET m1 == [m EXCEPT !.display_control[controller] =
                   IF show_display THEN BitOr(@, LCD_FLAG_DISPLAYON)
                   ELSE BitAndNot(@, LCD_FLAG_DISPLAYON)]
    IN send_command_to_controller(m1, controller,
           BitOr(LCD_CMD_DISPLAYCONTROL, m1.display_control[controller]))

scroll_display_left_controller(m, controller) ==
    send_command_to_controller(m, controller,
        BitOr(BitOr(LCD_CMD_CURSORSHIFT, LCD_FLAG_DISPLAYMOVE), LCD_FLAG_MOVELEFT))

scroll_display_right_controller(m, controller) ==
    send_command_to_controller(m, controller,
        BitOr(BitOr(LCD_CMD_CURSORSHIFT, LCD_FLAG_DISPLAYMOVE), LCD_FLAG_MOVERIGHT))

left_to_right_controller(m, controller) ==
    IF m.err # "Ok" THEN m
    ELSE IF controller >= MAX_CONTROLLER_COUNT THEN Fail(m, "Panic")
    ELSE
    LET m1 == [m EXCEPT !.display_mode[controller] = BitOr(@, LCD_FLAG_ENTRYLEFT)]
    IN send_command_to_controller(m1, controller,
           BitOr(LCD_CMD_ENTRYMODESET, m1.display_mode[controller]))

right_to_left_controller(m, controller) ==
    IF m.err # "Ok" THEN m
    ELSE IF controller >= MAX_CONTROLLER_COUNT THEN Fail(m, "Panic")
    ELSE
    LET m1 == [m EXCEPT !.display_mode[controller] = BitOr(@, LCD_FLAG_ENTRYRIGHT)]
    IN send_command_to_controller(m1, controller,
           BitOr(LCD_CMD_ENTRYMODESET, m1.display_mode[controller]))

\* the entry-mode command sent from the stored byte as it was, the stored
\* byte updated afterwards
autoscroll_controller_send_first(m, controller, autoscroll) ==
    IF m.err # "Ok" THEN m
    ELSE IF controller >= MAX_CONTROLLER_COUNT THEN Fail(m, "Panic")
    ELSE
    LET m1 == send_command_to_controller(m, controller,
                  BitOr(LCD_CMD_ENTRYMODESET, m.display_mode[controller]))
    IN IF m1.err # "Ok" THEN m1
       ELSE [m1 EXCEPT !.display_mode[controller] =
                IF autoscroll THEN BitOr(@, LCD_FLAG_ENTRYSHIFTINCREMENT)
                ELSE BitAndNot(@, LCD_FLAG_ENTRYSHIFTINCREMENT)]

autoscroll_controller(m, controller, autoscroll) ==
    IF m.err # "Ok" THEN m
    ELSE IF controller >= MAX_CONTROLLER_COUNT THEN Fail(m, "Panic")
    ELSE
    LET m1 == [m EXCEPT !.display_mode[controller] =
                   IF autoscroll THEN BitOr(@, LCD_FLAG_ENTRYSHIFTINCREMENT)
                   ELSE BitAndNot(@, LCD_FLAG_ENTRYSHIFTINCREMENT)]
    IN send_command_to_controller(m1, controller,
           BitOr(LCD_CMD_ENTRYMODESET, m1.display_mode[controller]))

\* writes the bytes of `data` in order with RS = 1
RECURSIVE write_data_bytes(_, _, _)
write_data_bytes(m, controller, data) ==
    IF data = <<>> THEN m
    ELSE write_data_bytes(write_byte_to_controller(m, controller, TRUE, Head(data)),
                          controller, Tail(data))

create_char_controller(m, controller, location, charmap) ==
    LET m1 == send_command_to_controller(m, controller,
                  BitOr(LCD_CMD_SETCGRAMADDR, ((location % 8) * 8) % 256))
    IN write_data_bytes(m1, controller, charmap)

\* `c as u8` of every char of the text
CharsAsU8(text) == [i \in 1..Len(text) |-> text[i] % 256]

print_controller(m, controller, text) ==
    write_data_bytes(m, controller, CharsAsU8(text))

(* DisplayActionsTrait for HD44780 *)

\* clear: `for controller in 0..DEVICE::controller_count()`
RECURSIVE clear_from(_, _)
clear_from(m, controller) ==
    IF controller >= controller_count(adapter) THEN m
    ELSE clear_from(clear_controller(m, controller), controller + 1)

\* mutant: clear selecting controller 0 as home does
clear_selects_zero(m) ==
    LET m1 == clear_from(m, 0)
    IN IF m1.err # "Ok" THEN m1 ELSE [m1 EXCEPT !.active_controller = 0]

clear(m) == clear_from(m, 0)

\* home leaving the active controller as it was
home_keep_active(m) == home_controller(m, 0)

home(m) ==
    LET m1 == home_controller(m, 0)
    IN IF m1.err # "Ok" THEN m1 ELSE [m1 EXCEPT !.active_controller = 0]

\* mutant: a column equal to the display width is accepted
set_cursor_col_inclusive(m, col, row) ==
    IF row >= rows(lcd_type) THEN Fail(m, "RowOutOfRange")
    ELSE IF col > cols(lcd_type) THEN Fail(m, "ColumnOutOfRange")
    ELSE
    LET cr == row_to_controller_row(adapter, row)
        m1 == [m EXCEPT !.active_controller = cr[1]]
    IN send_command_to_controller(m1, m1.active_controller,
           BitOr(LCD_CMD_SETDDRAMADDR, (col + row_offsets(lcd_type)[cr[2]]) % 256))

\* mutant: the active controller assigned once the write has succeeded
set_cursor_assign_after(m, col, row) ==
    IF row >= rows(lcd_type) THEN Fail(m, "RowOutOfRange")
    ELSE IF col >= cols(lcd_type) THEN Fail(m, "ColumnOutOfRange")
    ELSE
    LET cr == row_to_controller_row(adapter, row)
        m1 == set_cursor_controller(m, cr[1], col, cr[2])
    IN IF m1.err # "Ok" THEN m1 ELSE [m1 EXCEPT !.active_controller = cr[1]]

set_cursor(m, col, row) ==
    IF row >= rows(lcd_type) THEN Fail(m, "RowOutOfRange")
    ELSE IF col >= cols(lcd_type) THEN Fail(m, "ColumnOutOfRange")
    ELSE
    LET cr == row_to_controller_row(adapter, row)
        m1 == [m EXCEPT !.active_controller = cr[1]]
    IN set_cursor_controller(m1, m1.active_controller, col, cr[2])

\* show_cursor: `for controller in 0..DEVICE::controller_count()`
RECURSIVE show_cursor_from(_, _, _)
show_cursor_from(m, show, controller) ==
    IF controller >= controller_count(adapter) THEN m
    ELSE show_cursor_from(
             show_cursor_controller(m, controller,
                 IF controller = m.active_controller THEN show ELSE FALSE),
             show, controller + 1)

show_cursor(m, show) == show_cursor_from(m, show, 0)

\* blink_cursor: `for controller in 0..DEVICE::controller_count()`
RECURSIVE blink_cursor_from(_, _, _)
blink_cursor_from(m, blink, controller) ==
    IF controller >= controller_count(adapter) THEN m
    ELSE blink_cursor_from(
             blink_cursor_controller(m, controller,
                 IF controller = m.active_controller THEN blink ELSE FALSE),
             blink, controller + 1)

blink_cursor(m, blink) == blink_cursor_from(m, blink, 0)

\* show_display: `for controller in 0..DEVICE::controller_count()`
RECURSIVE show_display_from(_, _, _)
show_display_from(m, show, controller) ==
    IF controller >= controller_count(adapter) THEN m
    ELSE show_display_from(show_display_controller(m, controller, show),
                           show, controller + 1)

\* show_display reaching the first controller only
show_display_first_only(m, show) == show_display_controller(m, 0, show)

show_display(m, show) == show_display_from(m, show, 0)

\* scroll_left: `for controller in 0..DEVICE::controller_count()`
RECURSIVE scroll_left_from(_, _)
scroll_left_from(m, controller) ==
    IF controller >= controller_count(adapter) THEN m
    ELSE scroll_left_from(scroll_display_left_controller(m, controller), controller + 1)

scroll_left(m) == scroll_left_from(m, 0)

\* scroll_right: `for controller in 0..DEVICE::controller_count()`
RECURSIVE scroll_right_from(_, _)
scroll_right_from(m, controller) ==
    IF controller >= controller_count(adapter) THEN m
    ELSE scroll_right_from(scroll_display_right_controller(m, controller), controller + 1)

scroll_right(m) == scroll_right_from(m, 0)

\* left_to_right: `for controller in 0..DEVICE::controller_count()`
RECURSIVE left_to_right_from(_, _)
left_to_right_from(m, controller) ==
    IF controller >= controller_count(adapter) THEN m
    ELSE left_to_right_from(left_to_right_controller(m, controller), controller + 1)

left_to_right(m) == left_to_right_from(m, 0)

\* right_to_left: `for controller in 0..DEVICE::controller_count()`
RECURSIVE right_to_left_from(_, _)
right_to_left_from(m, controller) ==
    IF controller >= controller_count(adapter) THEN m
    ELSE right_to_left_from(right_to_left_controller(m, controller), controller + 1)

right_to_left(m) == right_to_left_from(m, 0)

\* autoscroll: `for controller in 0..DEVICE::controller_count()`
RECURSIVE autoscroll_from(_, _, _)
autoscroll_from(m, on, controller) ==
    IF controller >= controller_count(adapter) THEN m
    ELSE autoscroll_from(autoscroll_controller(m, controller, on), on, controller + 1)

autoscroll(m, on) == autoscroll_from(m, on, 0)

\* print addressed to the first controller whatever the cursor's controller
print_first_controller(m, text) == print_controller(m, 0, text)

print(m, text) == print_controller(m, m.active_controller, text)

backlight(m, on) == set_backlight(m, on)

\* read_device_data(buffer): the caller's buffer is m.ret
read_device_data(m) ==
    IF m.err # "Ok" THEN m
    ELSE IF ~supports_reads(adapter) THEN Fail(m, "ReadNotSupported")
    ELSE read_bytes_from_controller(m, m.active_controller, TRUE)

\* mutant: the byte read is returned as it is
mask_busy_flag_kept(m) ==
    IF m.err # "Ok" THEN [m EXCEPT !.ret = <<>>] ELSE m

\* `Ok(buffer[0] & 0x7F)`; an error returns no value
mask_busy_flag(m) ==
    IF m.err # "Ok" THEN [m EXCEPT !.ret = <<>>]
    ELSE [m EXCEPT !.ret = <<BitAnd(@[1], 127)>>]

\* read_address_counter: `let mut buffer = [0];`
read_address_counter(m) ==
    IF m.err # "Ok" THEN m
    ELSE IF ~supports_reads(adapter) THEN Fail(m, "ReadNotSupported")
    ELSE mask_busy_flag(
             read_bytes_from_controller([m EXCEPT !.ret = <<0>>], m.active_controller, FALSE))

\* create_char: `for controller in 0..DEVICE::controller_count()`
RECURSIVE create_char_from(_, _, _, _)
create_char_from(m, location, charmap, controller) ==
    IF controller >= controller_count(adapter) THEN m
    ELSE create_char_from(create_char_controller(m, controller, location, charmap),
                          location, charmap, controller + 1)

create_char(m, location, charmap) == create_char_from(m, location, charmap, 0)

----------------------------------------------------------------------------
(* Inputs *)

Bools == {TRUE, FALSE}

\* the largest controller index handed to an operation: past the adapters'
\* controller counts and past the stored arrays
MaxControllerId == 2

\* controller indices passed to the per-controller operations
ControllerIds == 0..MaxControllerId

CursorCols == {0, 15, 40}
\* the largest row handed to set_cursor: one past the tallest display
MaxCursorRow == 4

CursorRows == 0..MaxCursorRow

\* texts as sequences of chars (code points); 960 does not fit a u8
Texts == {<<>>, <<72, 105>>, <<960>>}

\* nibbles and bytes handed to the adapter's write operations
Nibbles == {0, 5, 10, 15}
\* every value of the four data lines
DataValues == 0..15
Bytes == {0, 173, 222, 95}

\* columns at the edges of every geometry
EdgeCols == {0, 7, 8, 15, 16, 19, 20, 39, 40}

Charmaps == {<<0, 10, 31, 31, 14, 4, 0, 0>>}
Locations == {9}

\* bytes the bus returns to a read: the high nibble is on bits 7..4, with
\* the busy flag on bit 7 (0b1101_0110, 0b1110_0110, 0b0010_1001)
ReadBytes == {214, 230, 41}

\* what the bus returns to the busy polls before a read: the flag is set
\* in none, one or two polls and clear in the last
PollResponses == {<<41>>, <<214, 38>>, <<230, 214, 121>>}

\* the longest buffer handed to a read
MaxBufferLen == 2

BufferLens == 0..MaxBufferLen

\* what the bus returns during a read of n bytes: the polls' bytes, then
\* two bytes for each byte read; an adapter that cannot read is offered
\* one script
Scripts(n) ==
    IF supports_reads(adapter)
    THEN {p \o d : p \in PollResponses, d \in [1..(2 * n) -> ReadBytes]}
    ELSE {<<38, 214, 230>>}

\* the machine of a read into a caller's buffer of n zero bytes
BufferMachine(f, input, n) ==
    [Machine(f) EXCEPT !.input = input, !.ret = [i \in 1..n |-> 0]]

\* number of bus transactions (writes and reads) in a trace
NumTransactions(trace) ==
    Cardinality({i \in DOMAIN trace : trace[i].kind # "delay"})

\* where the bus may fail in a call that issues the transactions of m0.bus
\* when nothing fails: nowhere (0), or at its k-th transaction; a bus that
\* is not faulty never fails
FaultPoints(faulty, m0) == IF faulty THEN 0..NumTransactions(m0.bus) ELSE {0}

----------------------------------------------------------------------------
(* The display's side of the bus.  The pin layouts are those of the        *)
(* adapters' bit fields; a controller takes a nibble when a write with its *)
(* enable high is followed by a write with its enable low, and two nibbles *)
(* make a byte, as write_byte_to_controller sends them.                    *)

\* the signal byte a write puts on the expander's pins
Pins(e) == e.data[Len(e.data)]

PinRs(a) == IF a = "AdafruitLCDBackpack" THEN 1 ELSE 0
PinEnable(a, c) == IF a = "DualHD44780_PCF8574T" /\ c = 1 THEN 1 ELSE 2
PinBacklight(a) == IF a = "AdafruitLCDBackpack" THEN 7 ELSE 3
PinDataLsb(a) == IF a = "AdafruitLCDBackpack" THEN 3 ELSE 4

PinNibble(a, b) == (b \div (2 ^ PinDataLsb(a))) % 16

\* the positions of a trace where controller c takes a nibble, in order
StrobesTo(trace, c) ==
    SelectSeq([i \in 1..(Len(trace) - 1) |-> i],
              LAMBDA i :
                  /\ trace[i].kind = "write" /\ trace[i].ok
                  /\ trace[i + 1].kind = "write" /\ trace[i + 1].ok
                  /\ Bit(Pins(trace[i]), PinEnable(adapter, c)) = 1
                  /\ Bit(Pins(trace[i + 1]), PinEnable(adapter, c)) = 0
                  /\ (adapter = "GenericPCF8574T" => Bit(Pins(trace[i]), 1) = 0))

\* the command bytes controller c received in a trace: its nibbles taken
\* two by two, high nibble first, with register select low
CommandsTo(trace, c) ==
    LET at == StrobesTo(trace, c)
        byte(j) == PinNibble(adapter, Pins(trace[at[2 * j - 1]])) * 16
                   + PinNibble(adapter, Pins(trace[at[2 * j]]))
        rs(j) == Bit(Pins(trace[at[2 * j]]), PinRs(adapter))
    IN SelectSeq([j \in 1..(Len(at) \div 2) |-> IF rs(j) = 0 THEN byte(j) ELSE 256],
                 LAMBDA b : b < 256)

\* the last DISPLAY-CONTROL command (0b0000_1xxx) controller c received,
\* prev when the trace holds none; a controller the adapter does not have
\* receives nothing
LastControl(prev, trace, c) ==
    LET cmds == SelectSeq(CommandsTo(trace, c), LAMBDA b : b \div 8 = 1)
    IN IF c >= controller_count(adapter) \/ cmds = <<>> THEN prev
       ELSE cmds[Len(cmds)]

----------------------------------------------------------------------------
(* The state machine *)

\* a display of each adapter with a geometry it supports, and one it does not
MainConfigs ==
    {<<"GenericPCF8574T", "Lcd16x2", 39>>,
     <<"AdafruitLCDBackpack", "Lcd20x4", 32>>,
     <<"DualHD44780_PCF8574T", "Lcd40x4", 39>>,
     <<"GenericPCF8574T", "Lcd40x4", 32>>}

Idle == [name |-> "idle", args |-> <<>>]

\* the state after new_with_address(i2c, address, lcd_type, delay)
New(configs) ==
    /\ \E cfg \in configs :
          /\ adapter = cfg[1]
          /\ lcd_type = cfg[2]
          /\ i2c_address = cfg[3]
    /\ bits = 0
    /\ display_function = [c \in 0..(MAX_CONTROLLER_COUNT - 1) |-> 0]
    /\ display_control = [c \in 0..(MAX_CONTROLLER_COUNT - 1) |-> 0]
    /\ display_mode = [c \in 0..(MAX_CONTROLLER_COUNT - 1) |-> 0]
    /\ active_controller = 0
    /\ op = Idle
    /\ result = "Ok"
    /\ output = <<>>
    /\ bus = <<>>
    /\ lcd_control = [c \in 0..(MAX_CONTROLLER_COUNT - 1) |-> 0]

Init == New(MainConfigs)

\* one call: the machine record the call ends with becomes the next state;
\* op, result and bus record the call for the caller.  A panic halts the
\* program.
Call(name, args, m) ==
    /\ op = Idle
    /\ bits' = m.bits
    /\ display_function' = m.display_function
    /\ display_control' = m.display_control
    /\ display_mode' = m.display_mode
    /\ active_controller' = m.active_controller
    /\ op' = [name |-> name, args |-> args]
    /\ result' = m.err
    /\ output' = m.ret
    /\ bus' = m.bus
    /\ lcd_control' = [c \in 0..(MAX_CONTROLLER_COUNT - 1) |->
                          LastControl(lcd_control[c], m.bus, c)]
    /\ UNCHANGED config

\* the caller takes the result; the record of the call is dropped
Return ==
    /\ op # Idle
    /\ result # "Panic"
    /\ op' = Idle
    /\ result' = "Ok"
    /\ output' = <<>>
    /\ bus' = <<>>
    /\ UNCHANGED <<config, bits, driver, lcd_control>>

DoInit(faulty) ==
    /\ op = Idle
    /\ \E f \in FaultPoints(faulty, init(Machine(0))) : Call("init", <<>>, init(Machine(f)))

DoClear(faulty) ==
    /\ op = Idle
    /\ \E f \in FaultPoints(faulty, clear(Machine(0))) : Call("clear", <<>>, clear(Machine(f)))

DoHome(faulty) ==
    /\ op = Idle
    /\ \E f \in FaultPoints(faulty, home(Machine(0))) : Call("home", <<>>, home(Machine(f)))

DoSetCursor(faulty, colset, rowset) ==
    /\ op = Idle
    /\ \E col \in colset, row \in rowset :
           \E f \in FaultPoints(faulty, set_cursor(Machine(0), col, row)) :
               Call("set_cursor", <<col, row>>, set_cursor(Machine(f), col, row))

DoShowCursor(faulty) ==
    /\ op = Idle
    /\ \E v \in Bools :
           \E f \in FaultPoints(faulty, show_cursor(Machine(0), v)) :
               Call("show_cursor", <<v>>, show_cursor(Machine(f), v))

DoBlinkCursor(faulty) ==
    /\ op = Idle
    /\ \E v \in Bools :
           \E f \in FaultPoints(faulty, blink_cursor(Machine(0), v)) :
               Call("blink_cursor", <<v>>, blink_cursor(Machine(f), v))

DoShowDisplay(faulty) ==
    /\ op = Idle
    /\ \E v \in Bools :
           \E f \in FaultPoints(faulty, show_display(Machine(0), v)) :
               Call("show_display", <<v>>, show_display(Machine(f), v))

DoScrollLeft(faulty) ==
    /\ op = Idle
    /\ \E f \in FaultPoints(faulty, scroll_left(Machine(0))) :
           Call("scroll_left", <<>>, scroll_left(Machine(f)))

DoScrollRight(faulty) ==
    /\ op = Idle
    /\ \E f \in FaultPoints(faulty, scroll_right(Machine(0))) :
           Call("scroll_right", <<>>, scroll_right(Machine(f)))

DoLeftToRight(faulty) ==
    /\ op = Idle
    /\ \E f \in FaultPoints(faulty, left_to_right(Machine(0))) :
           Call("left_to_right", <<>>, left_to_right(Machine(f)))

DoRightToLeft(faulty) ==
    /\ op = Idle
    /\ \E f \in FaultPoints(faulty, right_to_left(Machine(0))) :
           Call("right_to_left", <<>>, right_to_left(Machine(f)))

DoAutoscroll(faulty) ==
    /\ op = Idle
    /\ \E v \in Bools :
           \E f \in FaultPoints(faulty, autoscroll(Machine(0), v)) :
               Call("autoscroll", <<v>>, autoscroll(Machine(f), v))

DoPrint(faulty) ==
    /\ op = Idle
    /\ \E text \in Texts :
           \E f \in FaultPoints(faulty, print(Machine(0), text)) :
               Call("print", <<text>>, print(Machine(f), text))

DoBacklight(faulty) ==
    /\ op = Idle
    /\ \E v \in Bools :
           \E f \in FaultPoints(faulty, backlight(Machine(0), v)) :
               Call("backlight", <<v>>, backlight(Machine(f), v))

DoCreateChar(faulty) ==
    /\ op = Idle
    /\ \E location \in Locations, charmap \in Charmaps :
           \E f \in FaultPoints(faulty, create_char(Machine(0), location, charmap)) :
               Call("create_char", <<location, charmap>>,
                    create_char(Machine(f), location, charmap))

DoReadDeviceData(faulty) ==
    /\ op = Idle
    /\ \E n \in BufferLens :
           \E input \in Scripts(n) :
               \E f \in FaultPoints(faulty, read_device_data(BufferMachine(0, input, n))) :
                   Call("read_device_data", <<n, input>>,
                        read_device_data(BufferMachine(f, input, n)))

DoReadAddressCounter(faulty) ==
    /\ op = Idle
    /\ \E input \in Scripts(1) :
           \E f \in FaultPoints(faulty, read_address_counter(ReadMachine(0, input))) :
               Call("read_address_counter", <<input>>,
                    read_address_counter(ReadMachine(f, input)))

(* the public per-controller operations of HD44780 *)

DoShowCursorController(faulty) ==
    /\ op = Idle
    /\ \E c \in ControllerIds, v \in Bools :
           \E f \in FaultPoints(faulty, show_cursor_controller(Machine(0), c, v)) :
               Call("show_cursor_controller", <<c, v>>,
                    show_cursor_controller(Machine(f), c, v))

DoBlinkCursorController(faulty) ==
    /\ op = Idle
    /\ \E c \in ControllerIds, v \in Bools :
           \E f \in FaultPoints(faulty, blink_cursor_controller(Machine(0), c, v)) :
               Call("blink_cursor_controller", <<c, v>>,
                    blink_cursor_controller(Machine(f), c, v))

DoShowDisplayController(faulty) ==
    /\ op = Idle
    /\ \E c \in ControllerIds, v \in Bools :
           \E f \in FaultPoints(faulty, show_display_controller(Machine(0), c, v)) :
               Call("show_display_controller", <<c, v>>,
                    show_display_controller(Machine(f), c, v))

DoAutoscrollController(faulty) ==
    /\ op = Idle
    /\ \E c \in ControllerIds, v \in Bools :
           \E f \in FaultPoints(faulty, autoscroll_controller(Machine(0), c, v)) :
               Call("autoscroll_controller", <<c, v>>,
                    autoscroll_controller(Machine(f), c, v))

(* the operations of HD44780AdapterTrait, called on the adapter itself *)

\* the associated function is_supported(display_type)
DoIsSupported ==
    /\ op = Idle
    /\ \E t \in LcdDisplayType :
           /\ op' = [name |-> "is_supported", args |-> <<t>>]
           /\ result' = "Ok"
           /\ output' = <<is_supported(adapter, t)>>
    /\ bus' = <<>>
    /\ UNCHANGED <<config, bits, driver, lcd_control>>

\* `Ok(busy)`
ReturnBusy(m) == IF m.err # "Ok" THEN m ELSE [m EXCEPT !.ret = <<m.busy>>]

DoIsBusy(faulty) ==
    /\ op = Idle
    /\ \E b \in ReadBytes :
           \E f \in FaultPoints(faulty, is_busy(ReadMachine(0, <<b>>))) :
               Call("is_busy", <<b>>, ReturnBusy(is_busy(ReadMachine(f, <<b>>))))

DoReadBytes(faulty) ==
    /\ op = Idle
    /\ \E c \in ControllerIds, rs \in Bools, n \in BufferLens :
           \E input \in Scripts(n) :
               \E f \in FaultPoints(faulty,
                          read_bytes_from_controller(BufferMachine(0, input, n), c, rs)) :
                   Call("read_bytes_from_controller", <<c, rs, n, input>>,
                        read_bytes_from_controller(BufferMachine(f, input, n), c, rs))

DoSetRs ==
    /\ op = Idle
    /\ \E v \in Bools :
           Call("set_rs", <<v>>, [Machine(0) EXCEPT !.bits = set_rs(@, v)])

DoSetRw ==
    /\ op = Idle
    /\ \E v \in Bools :
           Call("set_rw", <<v>>, [Machine(0) EXCEPT !.bits = set_rw(@, v)])

DoSetEnable ==
    /\ op = Idle
    /\ \E v \in Bools, c \in ControllerIds :
           LET e == set_enable(bits, v, c)
           IN Call("set_enable", <<v, c>>,
                   [Machine(0) EXCEPT !.bits = e.bits, !.err = e.err])

DoSetData ==
    /\ op = Idle
    /\ \E v \in DataValues :
           Call("set_data", <<v>>, [Machine(0) EXCEPT !.bits = set_data(@, v)])

DoWriteBitsToGpio(faulty) ==
    /\ op = Idle
    /\ \E f \in FaultPoints(faulty, write_bits_to_gpio(Machine(0))) :
           Call("write_bits_to_gpio", <<>>, write_bits_to_gpio(Machine(f)))

DoWriteNibble(faulty) ==
    /\ op = Idle
    /\ \E c \in ControllerIds, rs \in Bools, v \in Nibbles :
           \E f \in FaultPoints(faulty, write_nibble_to_controller(Machine(0), c, rs, v)) :
               Call("write_nibble_to_controller", <<c, rs, v>>,
                    write_nibble_to_controller(Machine(f), c, rs, v))

DoWriteByte(faulty) ==
    /\ op = Idle
    /\ \E c \in ControllerIds, rs \in Bools, v \in Bytes :
           \E f \in FaultPoints(faulty, write_byte_to_controller(Machine(0), c, rs, v)) :
               Call("write_byte_to_controller", <<c, rs, v>>,
                    write_byte_to_controller(Machine(f), c, rs, v))

Next ==
    \/ DoInit(FALSE)
    \/ DoClear(FALSE)
    \/ DoHome(FALSE)
    \/ DoSetCursor(FALSE, CursorCols, CursorRows)
    \/ DoShowCursor(FALSE)
    \/ DoBlinkCursor(FALSE)
    \/ DoShowDisplay(FALSE)
    \/ DoScrollLeft(FALSE)
    \/ DoScrollRight(FALSE)
    \/ DoLeftToRight(FALSE)
    \/ DoRightToLeft(FALSE)
    \/ DoAutoscroll(FALSE)
    \/ DoPrint(FALSE)
    \/ DoBacklight(FALSE)
    \/ DoCreateChar(FALSE)
    \/ Return

Spec == Init /\ [][Next]_vars

(* The adapter on its own: the setters and the write protocol, on a bus     *)
(* that may fail at any transaction.                                       *)

AdapterConfigs ==
    {<<"GenericPCF8574T", "Lcd16x2", 39>>,
     <<"AdafruitLCDBackpack", "Lcd16x2", 32>>,
     <<"DualHD44780_PCF8574T", "Lcd40x4", 39>>}

NextAdapter ==
    \/ DoIsSupported
    \/ DoSetRs
    \/ DoSetRw
    \/ DoSetEnable
    \/ DoSetData
    \/ DoBacklight(TRUE)
    \/ DoWriteBitsToGpio(TRUE)
    \/ DoWriteNibble(TRUE)
    \/ DoWriteByte(TRUE)
    \/ Return

SpecAdapter == New(AdapterConfigs) /\ [][NextAdapter]_vars

(* Initialisation of every adapter with every geometry, on a bus that may  *)
(* fail at any transaction of init.                                        *)

\* every adapter with every geometry it rejects, and with some it accepts
InitConfigs ==
    {cfg \in Adapters \X LcdDisplayType \X {39} : ~is_supported(cfg[1], cfg[2])}
    \cup {<<"GenericPCF8574T", "Lcd16x2", 39>>,
          <<"GenericPCF8574T", "Lcd20x4", 39>>,
          <<"AdafruitLCDBackpack", "Lcd20x2", 39>>,
          <<"DualHD44780_PCF8574T", "Lcd40x4", 39>>}

NextInit ==
    \/ DoInit(TRUE)
    \/ DoSetCursor(FALSE, {0}, {0, 2})
    \/ DoShowCursor(FALSE)
    \/ DoBacklight(FALSE)
    \/ Return

SpecInit == New(InitConfigs) /\ [][NextInit]_vars

(* Cursor placement for every adapter and geometry, on a bus that may fail *)

CursorConfigs == Adapters \X LcdDisplayType \X {39}

NextCursor ==
    \/ DoSetCursor(TRUE, EdgeCols, CursorRows)
    \/ DoHome(TRUE)
    \/ Return

SpecCursor == New(CursorConfigs) /\ [][NextCursor]_vars

(* The per-controller operations, called with any controller index *)

NextCtl ==
    \/ DoInit(FALSE)
    \/ DoShowCursorController(FALSE)
    \/ DoBlinkCursorController(FALSE)
    \/ DoShowDisplayController(FALSE)
    \/ DoAutoscrollController(FALSE)
    \/ Return

SpecCtl == New(MainConfigs) /\ [][NextCtl]_vars


(* The operations that assign active_controller (init, home, set_cursor),   *)
(* with home and set_cursor also failing on the bus, among operations that *)
(* read it or leave it alone.                                              *)

NextActive ==
    \/ DoInit(FALSE)
    \/ DoHome(TRUE)
    \/ DoClear(FALSE)
    \/ DoSetCursor(TRUE, CursorCols, CursorRows)
    \/ DoPrint(FALSE)
    \/ DoShowCursor(FALSE)
    \/ DoAutoscroll(FALSE)
    \/ DoBacklight(FALSE)
    \/ DoCreateChar(FALSE)
    \/ Return

SpecActive == New(MainConfigs) /\ [][NextActive]_vars

(* The cursor, blink and display flags as the driver stores them and as   *)
(* the controllers receive them; the bus may fail during show_cursor.      *)

FlagConfigs ==
    {<<"DualHD44780_PCF8574T", "Lcd40x4", 39>>,
     <<"GenericPCF8574T", "Lcd20x4", 39>>}

NextFlags ==
    \/ DoInit(FALSE)
    \/ DoSetCursor(FALSE, {0}, {0, 2})
    \/ DoShowCursor(TRUE)
    \/ DoBlinkCursor(FALSE)
    \/ DoShowDisplay(FALSE)
    \/ Return

SpecFlags == New(FlagConfigs) /\ [][NextFlags]_vars

(* The read operations, on the adapter and through the driver, with the   *)
(* bus returning scripted bytes.                                           *)

ReadConfigs ==
    {<<"GenericPCF8574T", "Lcd16x2", 39>>,
     <<"AdafruitLCDBackpack", "Lcd16x2", 32>>,
     <<"DualHD44780_PCF8574T", "Lcd40x4", 39>>}

NextRead ==
    \/ DoIsBusy(TRUE)
    \/ DoReadBytes(FALSE)
    \/ DoReadDeviceData(FALSE)
    \/ DoReadAddressCounter(TRUE)
    \/ DoBacklight(FALSE)
    \/ DoSetCursor(FALSE, {0}, {0, 2})
    \/ DoShowCursor(FALSE)
    \/ Return

SpecRead == New(ReadConfigs) /\ [][NextRead]_vars

(* A bus that may refuse any transaction of init, of a fan-out operation,  *)
(* of a busy poll and of a read.                                           *)

FaultConfigs ==
    {<<"GenericPCF8574T", "Lcd16x2", 39>>,
     <<"AdafruitLCDBackpack", "Lcd16x2", 32>>,
     <<"DualHD44780_PCF8574T", "Lcd40x4", 39>>}

NextFault ==
    \/ DoInit(TRUE)
    \/ DoClear(TRUE)
    \/ DoIsBusy(TRUE)
    \/ DoReadAddressCounter(TRUE)
    \/ Return

SpecFault == New(FaultConfigs) /\ [][NextFault]_vars

(* The fan-out mode operations on a bus that may refuse any of their       *)
(* writes, on the two-controller display and on a one-controller display.  *)

NextFanOut ==
    \/ DoInit(FALSE)
    \/ DoShowDisplay(TRUE)
    \/ DoAutoscroll(TRUE)
    \/ Return

SpecFanOut == New(FlagConfigs) /\ [][NextFanOut]_vars

(* The backlight among the operations that write to the bus: a repeated    *)
(* init, nibble strobes, busy polls and reads; the bus may refuse the      *)
(* write of backlight and any transaction of a read.                       *)

NextBacklight ==
    \/ DoInit(FALSE)
    \/ DoBacklight(TRUE)
    \/ DoPrint(FALSE)
    \/ DoIsBusy(FALSE)
    \/ DoReadAddressCounter(TRUE)
    \/ Return

SpecBacklight == New(FaultConfigs) /\ [][NextBacklight]_vars

(* Every display operation of the facade, the read operations among them,  *)
(* on a display of each adapter.                                           *)

\* read_device_data into a buffer of one byte, the busy flag clear at the
\* first poll or at the second
DoReadOneByte ==
    /\ op = Idle
    /\ \E input \in {<<41, 214, 230>>, <<214, 38, 230, 41>>} :
           Call("read_device_data", <<1, input>>,
                read_device_data(BufferMachine(0, input, 1)))

NextModes ==
    \/ DoInit(FALSE)
    \/ DoSetCursor(FALSE, {0}, {0, 2})
    \/ DoShowCursor(FALSE)
    \/ DoBlinkCursor(FALSE)
    \/ DoShowDisplay(FALSE)
    \/ DoAutoscroll(FALSE)
    \/ DoClear(FALSE)
    \/ DoScrollLeft(FALSE)
    \/ DoScrollRight(FALSE)
    \/ DoPrint(FALSE)
    \/ DoCreateChar(FALSE)
    \/ DoBacklight(FALSE)
    \/ DoReadOneByte
    \/ DoReadAddressCounter(FALSE)
    \/ Return

SpecModes == New(FaultConfigs) /\ [][NextModes]_vars

(* A read on the read-capable adapter, one turn of its loops at a time.    *)
(* While the call is in `while self.is_busy()? {}` its result is "Polling" *)
(* and bus holds the transactions of the latest poll.  The poll that       *)
(* returns the flag clear is followed by the set-up write; from then on    *)
(* the call is in `for byte in buffer`, its result is "Reading" and bus    *)
(* holds the clear poll, the set-up write and the six transactions of      *)
(* every byte read so far.  The call ends with its last byte, or with a    *)
(* transaction the bus refuses.  The display answers every poll as it      *)
(* likes; that it does not answer busy for ever is the fairness of         *)
(* PollReturnsClear; that the loop over the buffer goes on is the          *)
(* fairness of ReadByte.                                                   *)

PollConfigs ==
    {<<"GenericPCF8574T", "Lcd16x2", 39>>,
     <<"GenericPCF8574T", "Lcd20x4", 39>>}

\* the index of the byte the loop over the buffer reads next
NextByte == (Len(bus) - 7) \div 6 + 1

\* the machine of one turn of the loop over the buffer: the buffer ends at
\* the byte that is read in this turn
ByteMachine(f, input) ==
    [Machine(f) EXCEPT !.input = input, !.ret = SubSeq(output, 1, NextByte)]

\* read_bytes_from_controller(0, rs_setting, buffer) is called
BeginRead ==
    /\ op = Idle
    /\ supports_reads(adapter)
    /\ \E rs \in Bools, n \in BufferLens :
          /\ op' = [name |-> "read_bytes_from_controller", args |-> <<0, rs, n>>]
          /\ output' = [i \in 1..n |-> 0]
    /\ result' = "Polling"
    /\ bus' = <<>>
    /\ UNCHANGED <<config, bits, driver, lcd_control>>

\* one turn of the wait loop: the poll returns the flag set
PollBusy ==
    /\ result = "Polling"
    /\ \E b \in ReadBytes :
          LET m == is_busy(ReadMachine(0, <<b>>))
          IN /\ m.err = "Ok"
             /\ m.busy
             /\ bus' = m.bus
    /\ UNCHANGED <<config, bits, driver, lcd_control, op, result, output>>

\* the last turn of the wait loop: the poll (the transactions of is_busy,
\* one by one) returns the flag clear and the set-up write follows; a call
\* with an empty buffer returns
PollReturnsClear ==
    /\ result = "Polling"
    /\ result' = (IF op.args[3] = 0 THEN "Ok" ELSE "Reading")
    /\ UNCHANGED <<config, bits, driver, lcd_control, op, output>>
    /\ \E b \in ReadBytes, setup \in {busy_setup(bits)} :
          \E m0 \in {ReadMachine(0, <<b>>)} :
          \E m1 \in {i2c_write(m0, <<setup>>)} :
          \E m2 \in {i2c_write(m1, <<SetField(setup, 2, 2, 1)>>)} :
          \E m3 \in {i2c_read(m2)} :
          \E m4 \in {i2c_write(m3, <<setup>>)} :
          \E m5 \in {i2c_write(m4, <<SetField(setup, 2, 2, 1)>>)} :
          \E m6 \in {i2c_write(m5, <<setup>>)} :
          \E polled \in {busy_result(m6)} :
             /\ polled.err = "Ok"
             /\ ~polled.busy
             /\ \E m \in {i2c_write(polled, <<read_setup(bits, op.args[2])>>)} :
                   /\ m.err = "Ok"
                   /\ bus' = m.bus

\* one turn of the loop over the buffer; the call returns after the last
ReadByte ==
    /\ result = "Reading"
    /\ result' = (IF NextByte = op.args[3] THEN "Ok" ELSE "Reading")
    /\ UNCHANGED <<config, bits, driver, lcd_control, op>>
    /\ \E h \in ReadBytes, l \in ReadBytes, data_cntl \in {read_setup(bits, op.args[2])} :
          \E m0 \in {clear_byte(ByteMachine(0, <<h, l>>), NextByte)} :
          \E m1 \in {read_nibble(m0, data_cntl)} :
          \E m2 \in {store_high_nibble(m1, NextByte)} :
          \E m3 \in {read_nibble(m2, data_cntl)} :
          \E m \in {store_low_nibble(m3, NextByte)} :
             /\ m.err = "Ok"
             /\ output' = m.ret \o SubSeq(output, NextByte + 1, Len(output))
             /\ bus' = bus \o m.bus

\* the bus refuses a transaction of a poll, the set-up write, or a
\* transaction of a byte
ReadRefused ==
    /\ result \in {"Polling", "Reading"}
    /\ result' = "I2cError"
    /\ UNCHANGED <<config, bits, driver, lcd_control, op>>
    /\ IF result = "Polling"
       THEN \E b \in ReadBytes, f \in 1..7 :
               /\ Bit(b, 7) = 1 => f <= 6
               /\ LET m == read_bytes_from_controller(
                               BufferMachine(f, <<b>>, 0), op.args[1], op.args[2])
                  IN /\ m.err = "I2cError"
                     /\ output' = output
                     /\ bus' = m.bus
       ELSE \E h \in ReadBytes, l \in ReadBytes, f \in 1..6 :
               LET m == read_bytes_from(ByteMachine(f, <<h, l>>),
                                        read_setup(bits, op.args[2]), NextByte)
               IN /\ m.err = "I2cError"
                  /\ output' = m.ret \o SubSeq(output, NextByte + 1, Len(output))
                  /\ bus' = bus \o m.bus

\* the caller takes the result of a call that has returned
ReturnFromRead == result \notin {"Polling", "Reading"} /\ Return

NextPoll ==
    \/ BeginRead
    \/ PollBusy
    \/ PollReturnsClear
    \/ ReadByte
    \/ ReadRefused
    \/ DoBacklight(FALSE)
    \/ ReturnFromRead

SpecPoll ==
    New(PollConfigs) /\ [][NextPoll]_vars /\ WF_vars(PollReturnsClear)
                     /\ WF_vars(ReadByte)

----------------------------------------------------------------------------
(* Reading a bus trace: the pin layouts of the adapters as the             *)
(* specification gives them (section 6), independent of the setters.       *)

Transactions(trace) == SelectSeq(trace, LAMBDA e : e.kind # "delay")

\* no transaction of the trace was refused by the bus
NoBusFault(trace) == \A i \in DOMAIN trace : trace[i].kind = "delay" \/ trace[i].ok


\* the geometries an adapter drives
GeometryFits(a, t) == (a = "DualHD44780_PCF8574T") <=> (t = "Lcd40x4")

\* the driver as new_with_address leaves it
FreshlyConstructed ==
    /\ bits = 0
    /\ active_controller = 0
    /\ \A c \in 0..(MAX_CONTROLLER_COUNT - 1) :
          display_function[c] = 0 /\ display_control[c] = 0 /\ display_mode[c] = 0

\* t[from+1..from+4] strobe byte v into controller c with register select
\* rs: high nibble with enable high then low, low nibble likewise; the
\* other pins of the expander stay as they were in `before`
IsByteStrobe(t, from, c, rs, v, before) ==
    /\ Len(t) >= from + 4
    /\ \A k \in 1..4 :
          LET e == t[from + k]
              b == Pins(e)
          IN /\ e.kind = "write"
             /\ e.addr = i2c_address
             /\ Len(e.data) = (IF adapter = "AdafruitLCDBackpack" THEN 2 ELSE 1)
             /\ PinNibble(adapter, b) = (IF k <= 2 THEN v \div 16 ELSE v % 16)
             /\ Bit(b, PinEnable(adapter, c)) = (IF k \in {1, 3} THEN 1 ELSE 0)
             /\ Bit(b, PinRs(adapter)) = BoolToU8(rs)
             /\ (adapter = "GenericPCF8574T" => Bit(b, 1) = 0)
             /\ Bit(b, PinBacklight(adapter)) = Bit(before, PinBacklight(adapter))
             /\ (adapter = "DualHD44780_PCF8574T" =>
                    Bit(b, PinEnable(adapter, 1 - c)) = Bit(before, PinEnable(adapter, 1 - c)))

----------------------------------------------------------------------------
(* C1 *)

\* C1: write_byte_to_controller on a valid controller, when the bus accepts
\* every transaction, succeeds with exactly four bus writes and nothing
\* else: the high nibble with the controller's enable high, then low, the
\* low nibble with enable high, then low; RS is as requested in all four and
\* RW (where the adapter has the pin) is 0.
C1_WriteByteFourWrites ==
    (/\ op.name = "write_byte_to_controller"
     /\ op.args[1] < controller_count(adapter)
     /\ NoBusFault(bus))
    => /\ result = "Ok"
       /\ Len(bus) = 4
       /\ \A i \in 1..Len(bus) : bus[i].kind = "write"
       /\ IsByteStrobe(bus, 0, op.args[1], op.args[2], op.args[3], bits)

C1_Witness ==
    /\ op.name = "write_byte_to_controller"
    /\ adapter = "DualHD44780_PCF8574T"
    /\ op.args = <<1, TRUE, 222>>
    /\ result = "Ok"
    /\ Len(bus) = 4

----------------------------------------------------------------------------
(* C2 *)

\* the 29 bytes of section 4.2
GenericInitBytes ==
    <<52, 48, 52, 48, 52, 48, 36, 32,
      36, 32, 132, 128,
      4, 0, 196, 192,
      4, 0, 100, 96,
      4, 0, 20, 16,
      4, 0, 36, 32,
      40>>

\* C2: init on a freshly constructed generic PCF8574T display of a
\* compatible geometry, when the bus accepts every transaction, succeeds and
\* its bus transactions are exactly 29 single-byte writes to the device
\* address, 0x34,0x30 three times, 0x24,0x20, the nibble strobes of 0x28,
\* 0x0C, 0x06, 0x01, 0x02 with RS = 0, and a final 0x28; there is no read.
C2_GenericInitTrace ==
    [][(/\ op'.name = "init"
        /\ adapter = "GenericPCF8574T"
        /\ GeometryFits(adapter, lcd_type)
        /\ FreshlyConstructed
        /\ NoBusFault(bus'))
       => /\ result' = "Ok"
          /\ Transactions(bus') =
                 [i \in 1..29 |-> [kind |-> "write", addr |-> i2c_address,
                                   data |-> <<GenericInitBytes[i]>>, ok |-> TRUE]]]_vars

C2_Witness ==
    /\ op.name = "init"
    /\ adapter = "GenericPCF8574T"
    /\ lcd_type = "Lcd16x2"
    /\ result = "Ok"
    /\ Len(Transactions(bus)) = 29
    /\ bus[1].data = <<52>>
    /\ bits = 40

----------------------------------------------------------------------------
(* C3 *)

\* the nibbles one controller receives during init, each strobed by a pair
\* of writes: 3, 3, 3, 2 and the nibbles of 0x28, 0x0C, 0x06, 0x01, 0x02
InitNibbles == <<3, 3, 3, 2, 2, 8, 0, 12, 0, 6, 0, 1, 0, 2>>

\* writes from+1..from+28 of t carry InitNibbles to controller c with RS = 0,
\* toggling the enable bit of c and no other pin but the data pins
IsInitOfController(t, from, c, before) ==
    /\ Len(t) >= from + 28
    /\ \A k \in 1..28 :
          LET b == Pins(t[from + k])
          IN /\ t[from + k].kind = "write"
             /\ PinNibble(adapter, b) = InitNibbles[(k + 1) \div 2]
             /\ Bit(b, PinEnable(adapter, c)) = k % 2
             /\ Bit(b, PinEnable(adapter, 1 - c)) = Bit(before, PinEnable(adapter, 1 - c))
             /\ Bit(b, PinRs(adapter)) = 0
             /\ Bit(b, PinBacklight(adapter)) = Bit(before, PinBacklight(adapter))

\* C3: init on the dual-controller 40x4 display, when the bus accepts every
\* transaction, sends the whole handshake and configuration sequence to
\* controller 0, toggling only ENABLE1 (bit 2), before any write for
\* controller 1, then the identical sequence to controller 1 toggling only
\* ENABLE2 (bit 1), and after both exactly one more write, which switches
\* the backlight on.
C3_DualInitOrder ==
    [][(/\ op'.name = "init"
        /\ adapter = "DualHD44780_PCF8574T"
        /\ lcd_type = "Lcd40x4"
        /\ NoBusFault(bus'))
       => LET t == Transactions(bus')
          IN /\ result' = "Ok"
             /\ Len(t) = 57
             /\ IsInitOfController(t, 0, 0, bits)
             /\ IsInitOfController(t, 28, 1, Pins(t[28]))
             /\ Bit(Pins(t[28]), 2) = 0
             /\ t[57].kind = "write"
             /\ Bit(Pins(t[57]), 3) = 1
             /\ Bit(Pins(t[57]), 2) = 0 /\ Bit(Pins(t[57]), 1) = 0
             /\ PinNibble(adapter, Pins(t[57])) = PinNibble(adapter, Pins(t[56]))]_vars

C3_Witness ==
    /\ op.name = "init"
    /\ adapter = "DualHD44780_PCF8574T"
    /\ lcd_type = "Lcd40x4"
    /\ result = "Ok"
    /\ Len(Transactions(bus)) = 57
    /\ Pins(bus[1]) = 52

----------------------------------------------------------------------------
(* C4 *)

\* C4: whenever init on the Adafruit backpack reaches the bus, its first
\* transaction is the write of [0x00, 0x00] (IODIR), and every later
\* transaction is a two-byte write whose first byte is 0x09 (GPIO), so the
\* IODIR write happens before any GPIO write and exactly once.
C4_AdafruitIodirFirst ==
    (/\ op.name = "init"
     /\ adapter = "AdafruitLCDBackpack"
     /\ GeometryFits(adapter, lcd_type))
    => LET t == Transactions(bus)
       IN /\ Len(t) >= 1
          /\ t[1].kind = "write" /\ t[1].data = <<0, 0>>
          /\ \A i \in 2..Len(t) :
                t[i].kind = "write" /\ Len(t[i].data) = 2 /\ t[i].data[1] = 9
          /\ (result = "Ok" => Len(t) = 30)

C4_Witness ==
    /\ op.name = "init"
    /\ adapter = "AdafruitLCDBackpack"
    /\ result = "Ok"
    /\ Len(bus) > 2
    /\ bus[1].data = <<0, 0>>
    /\ bus[2].data[1] = 9

----------------------------------------------------------------------------
(* C5 *)

\* C5: init with a geometry the adapter does not drive returns
\* UnsupportedDisplayType, issues no bus transaction (and no delay), and
\* leaves the signal byte, the stored mode bytes and ActiveControllerIndex
\* as they were.
C5_UnsupportedInitIsInert ==
    [][(op'.name = "init" /\ ~GeometryFits(adapter, lcd_type))
       => /\ result' = "UnsupportedDisplayType"
          /\ bus' = <<>>
          /\ bits' = bits
          /\ UNCHANGED driver]_vars

C5_Witness ==
    /\ op.name = "init"
    /\ result = "UnsupportedDisplayType"
    /\ adapter = "AdafruitLCDBackpack"
    /\ lcd_type = "Lcd40x4"
    /\ bits # 0

----------------------------------------------------------------------------
(* C6 *)

\* C6: set_cursor with row >= rows returns RowOutOfRange; with a valid row
\* and col >= cols it returns ColumnOutOfRange; in both cases no bus
\* transaction is issued and ActiveControllerIndex (like every other field)
\* is unchanged.
C6_CursorOutOfRange ==
    [][(op'.name = "set_cursor"
        /\ (op'.args[2] >= rows(lcd_type) \/ op'.args[1] >= cols(lcd_type)))
       => /\ result' = (IF op'.args[2] >= rows(lcd_type)
                        THEN "RowOutOfRange" ELSE "ColumnOutOfRange")
          /\ bus' = <<>>
          /\ active_controller' = active_controller
          /\ bits' = bits]_vars

C6_Witness ==
    /\ op.name = "set_cursor"
    /\ result = "ColumnOutOfRange"
    /\ adapter = "DualHD44780_PCF8574T"
    /\ lcd_type = "Lcd40x4"
    /\ op.args = <<40, 1>>
    /\ active_controller = 1

----------------------------------------------------------------------------
(* C7 *)

\* the controller and local row a display row resolves to
ResolvedController(a, row) == IF a = "DualHD44780_PCF8574T" THEN row \div 2 ELSE 0
ResolvedRow(a, row) == IF a = "DualHD44780_PCF8574T" THEN row % 2 ELSE row

\* C7: an in-range set_cursor, when the bus accepts every transaction,
\* succeeds; on the dual-controller adapter rows 0,1,2,3 resolve to
\* (controller, local row) (0,0),(0,1),(1,0),(1,1) and on the others to
\* (0,row); ActiveControllerIndex becomes the resolved controller and the
\* bus sees exactly one command byte, 0x80 | (col + row_offset[local row]),
\* strobed on that controller's enable pin only.
C7_CursorResolution ==
    [][(/\ op'.name = "set_cursor"
        /\ op'.args[2] < rows(lcd_type)
        /\ op'.args[1] < cols(lcd_type)
        /\ NoBusFault(bus'))
       => LET col == op'.args[1]
              c == ResolvedController(adapter, op'.args[2])
              r == ResolvedRow(adapter, op'.args[2])
          IN /\ result' = "Ok"
             /\ active_controller' = c
             /\ Len(bus') = 4
             /\ IsByteStrobe(bus', 0, c, FALSE,
                             BitOr(128, col + row_offsets(lcd_type)[r]), bits)]_vars

C7_Witness ==
    /\ op.name = "set_cursor"
    /\ adapter = "DualHD44780_PCF8574T"
    /\ lcd_type = "Lcd40x4"
    /\ op.args = <<39, 3>>
    /\ result = "Ok"
    /\ active_controller = 1
    /\ Len(bus) = 4

----------------------------------------------------------------------------
(* C8 *)

----------------------------------------------------------------------------
(* C9 *)

\* C9: in every reachable state ActiveControllerIndex is less than the
\* adapter's controller_count().
C9_ActiveControllerInRange == active_controller < controller_count(adapter)

\* a set_cursor that moved to the second controller and then failed on the bus
C9_Witness ==
    /\ op.name = "set_cursor"
    /\ adapter = "DualHD44780_PCF8574T"
    /\ op.args[2] = 3
    /\ result = "I2cError"
    /\ active_controller = 1

----------------------------------------------------------------------------
(* C10 *)

\* C10: no operation, the public per-controller operations called with an
\* index >= controller_count() included, writes a stored function, control
\* or mode entry at an index >= controller_count().
C10_UnusedEntriesUntouched ==
    [][\A c \in 0..(MAX_CONTROLLER_COUNT - 1) :
          c >= controller_count(adapter)
          => /\ display_function'[c] = display_function[c]
             /\ display_control'[c] = display_control[c]
             /\ display_mode'[c] = display_mode[c]]_vars

\* the call that writes an unused entry: show_cursor_controller(1, true) on
\* a single-controller adapter
C10_Reached ==
    /\ op.name = "show_cursor_controller"
    /\ controller_count(adapter) = 1
    /\ op.args = <<1, TRUE>>
    /\ result = "BadDeviceId"
    /\ display_control[1] # 0

----------------------------------------------------------------------------
(* C11 *)

\* bits msb..lsb of new hold v, every other bit of new is as in old
FieldSet(old, new, msb, lsb, v) ==
    \A i \in 0..7 :
        Bit(new, i) = (IF lsb <= i /\ i <= msb THEN Bit(v, i - lsb) ELSE Bit(old, i))

\* the trace is one write of the single byte b to the display's address
IsOneByteWrite(trace, b) ==
    /\ Len(trace) = 1
    /\ trace[1].kind = "write"
    /\ trace[1].addr = i2c_address
    /\ trace[1].data = <<b>>

\* C11: on the generic PCF8574T adapter each setter changes only its own
\* field of the signal byte, RS bit 0, RW bit 1, ENABLE bit 2, BACKLIGHT
\* bit 3, DATA bits 7..4, whatever the byte held before, and the byte put
\* on the bus is that signal byte, alone in its transaction.
C11_GenericSignalByte ==
    [][adapter = "GenericPCF8574T"
       => /\ (op'.name = "set_rs"
               => FieldSet(bits, bits', 0, 0, BoolToU8(op'.args[1])) /\ bus' = <<>>)
          /\ (op'.name = "set_rw"
               => FieldSet(bits, bits', 1, 1, BoolToU8(op'.args[1])) /\ bus' = <<>>)
          /\ (op'.name = "set_enable" /\ op'.args[2] = 0
               => FieldSet(bits, bits', 2, 2, BoolToU8(op'.args[1])) /\ bus' = <<>>)
          /\ (op'.name = "set_data"
               => FieldSet(bits, bits', 7, 4, op'.args[1]) /\ bus' = <<>>)
          /\ (op'.name = "backlight"
               => FieldSet(bits, bits', 3, 3, BoolToU8(op'.args[1]))
                  /\ IsOneByteWrite(bus', bits'))
          /\ (op'.name = "write_bits_to_gpio"
               => bits' = bits /\ IsOneByteWrite(bus', bits))]_vars

\* RS 1, RW 0, ENABLE 1, BACKLIGHT 1 and DATA 0b1010 were set and the byte
\* 0b1010_1101 was written
C11_Witness ==
    /\ adapter = "GenericPCF8574T"
    /\ op.name = "write_bits_to_gpio"
    /\ result = "Ok"
    /\ bus[1].data = <<173>>

----------------------------------------------------------------------------
(* C12 *)

\* the trace is one write of the GPIO register: its address 0x09, then b
IsGpioRegisterWrite(trace, b) ==
    /\ Len(trace) = 1
    /\ trace[1].kind = "write"
    /\ trace[1].addr = i2c_address
    /\ trace[1].data = <<9, b>>

\* C12: on the Adafruit backpack each setter changes only its own field of
\* the state byte, RS bit 1, ENABLE bit 2, DATA bits 6..3, BACKLIGHT bit 7;
\* set_rw leaves the state byte as it is; bit 0 of the state byte is 0 in
\* every state; and every write of the state to the bus, those of the
\* nibble protocol included, is the two bytes 0x09, state with bit 0 of
\* state clear.
C12_AdafruitStateByte ==
    [][adapter = "AdafruitLCDBackpack"
       => /\ (op'.name = "set_rs"
               => FieldSet(bits, bits', 1, 1, BoolToU8(op'.args[1])) /\ bus' = <<>>)
          /\ (op'.name = "set_rw" => bits' = bits /\ bus' = <<>>)
          /\ (op'.name = "set_enable" /\ op'.args[2] = 0
               => FieldSet(bits, bits', 2, 2, BoolToU8(op'.args[1])) /\ bus' = <<>>)
          /\ (op'.name = "set_data"
               => FieldSet(bits, bits', 6, 3, op'.args[1]) /\ bus' = <<>>)
          /\ (op'.name = "backlight"
               => FieldSet(bits, bits', 7, 7, BoolToU8(op'.args[1]))
                  /\ IsGpioRegisterWrite(bus', bits'))
          /\ (op'.name = "write_bits_to_gpio"
               => bits' = bits /\ IsGpioRegisterWrite(bus', bits))
          /\ Bit(bits, 0) = 0
          /\ Bit(bits', 0) = 0
          /\ \A i \in DOMAIN bus' :
                 bus'[i].kind = "write"
                 => /\ Len(bus'[i].data) = 2
                    /\ bus'[i].data[1] = 9
                    /\ Bit(bus'[i].data[2], 0) = 0]_vars

\* RS 1, ENABLE 1, DATA 0b1010 and BACKLIGHT 1 were set, set_rw(true) was
\* called, and the state 0b1101_0110 is written
C12_Witness ==
    /\ adapter = "AdafruitLCDBackpack"
    /\ op.name = "write_bits_to_gpio"
    /\ result = "Ok"
    /\ bus[1].data = <<9, 214>>

----------------------------------------------------------------------------
(* C13 *)

\* C13: on the dual-controller PCF8574T adapter each setter changes only
\* its own field of the signal byte, RS bit 0, the enable of controller 1
\* (ENABLE2) bit 1, the enable of controller 0 (ENABLE1) bit 2, BACKLIGHT
\* bit 3, DATA bits 7..4; set_rw leaves the byte as it is; and the byte put
\* on the bus is that signal byte, alone in its transaction.
C13_DualSignalByte ==
    [][adapter = "DualHD44780_PCF8574T"
       => /\ (op'.name = "set_rs"
               => FieldSet(bits, bits', 0, 0, BoolToU8(op'.args[1])) /\ bus' = <<>>)
          /\ (op'.name = "set_rw" => bits' = bits /\ bus' = <<>>)
          /\ (op'.name = "set_enable" /\ op'.args[2] = 0
               => FieldSet(bits, bits', 2, 2, BoolToU8(op'.args[1])) /\ bus' = <<>>)
          /\ (op'.name = "set_enable" /\ op'.args[2] = 1
               => FieldSet(bits, bits', 1, 1, BoolToU8(op'.args[1])) /\ bus' = <<>>)
          /\ (op'.name = "set_data"
               => FieldSet(bits, bits', 7, 4, op'.args[1]) /\ bus' = <<>>)
          /\ (op'.name = "backlight"
               => FieldSet(bits, bits', 3, 3, BoolToU8(op'.args[1]))
                  /\ IsOneByteWrite(bus', bits'))
          /\ (op'.name = "write_bits_to_gpio"
               => bits' = bits /\ IsOneByteWrite(bus', bits))]_vars

\* RS 1, ENABLE2 1, ENABLE1 0, BACKLIGHT 1 and DATA 0b1010 were set and the
\* byte 0b1010_1011 is written
C13_Witness ==
    /\ adapter = "DualHD44780_PCF8574T"
    /\ op.name = "write_bits_to_gpio"
    /\ result = "Ok"
    /\ bus[1].data = <<171>>

----------------------------------------------------------------------------
(* C14 *)

\* C14: is_supported returns true for the dual-controller adapter exactly
\* for the 40x4 geometry, and for the generic PCF8574T and Adafruit
\* adapters exactly for the geometries other than 40x4.
C14_IsSupported ==
    op.name = "is_supported"
    => /\ Len(output) = 1
       /\ output[1] <=> GeometryFits(adapter, op.args[1])

C14_Witness ==
    /\ op.name = "is_supported"
    /\ adapter = "DualHD44780_PCF8574T"
    /\ op.args = <<"Lcd20x4">>
    /\ output = <<FALSE>>

----------------------------------------------------------------------------
(* C15 *)

WritesOf(trace) == Cardinality({i \in DOMAIN trace : trace[i].kind = "write"})
ReadsOf(trace) == Cardinality({i \in DOMAIN trace : trace[i].kind = "read"})

\* C15 as stated: on the generic PCF8574T adapter one busy-flag poll issues
\* exactly 6 bus writes and 1 bus read.
C15_PollSixWritesOneRead ==
    (/\ op.name = "is_busy"
     /\ adapter = "GenericPCF8574T"
     /\ NoBusFault(bus))
    => /\ WritesOf(bus) = 6
       /\ ReadsOf(bus) = 1

\* C15 amended: on the generic PCF8574T adapter one busy-flag poll that the
\* bus does not refuse issues exactly 5 bus writes and 1 bus read, the
\* read third, and nothing else, and returns bit 7 of the byte read.
C15_PollFiveWritesOneRead ==
    (/\ op.name = "is_busy"
     /\ adapter = "GenericPCF8574T"
     /\ NoBusFault(bus))
    => /\ result = "Ok"
       /\ WritesOf(bus) = 5
       /\ ReadsOf(bus) = 1
       /\ Len(bus) = 6
       /\ bus[3].kind = "read"
       /\ output = <<Bit(op.args[1], 7) = 1>>

C15_Witness ==
    /\ op.name = "is_busy"
    /\ adapter = "GenericPCF8574T"
    /\ result = "Ok"
    /\ Len(bus) = 6
    /\ output = <<TRUE>>

----------------------------------------------------------------------------
(* C16 *)

\* the bytes the bus returned to the reads of a trace, in order
BytesReadIn(trace) ==
    LET reads == SelectSeq(trace, LAMBDA e : e.kind = "read" /\ e.ok)
    IN [i \in 1..Len(reads) |-> reads[i].data[1]]

\* C16: when read_bytes_from_controller succeeds, byte i of the buffer is
\* (bits 7..4 of h) << 4 | (bits 7..4 of l), where h and l are the bytes
\* the bus returned to the (2i-1)-th and the 2i-th read after the busy
\* polls: the high nibble is read first and the buffer fills in read order.
C16_ReadDecode ==
    (/\ op.name = "read_bytes_from_controller"
     /\ adapter = "GenericPCF8574T"
     /\ result = "Ok")
    => LET n == op.args[3]
           r == BytesReadIn(bus)
           polls == Len(r) - 2 * n
       IN /\ r = op.args[4]
          /\ polls >= 1
          /\ Len(output) = n
          /\ \A i \in 1..n :
                 output[i] = (r[polls + 2 * i - 1] \div 16) * 16
                             + r[polls + 2 * i] \div 16

\* the reads 0b1101_0110 then 0b1110_0110 gave 0xDE, the first of two bytes
C16_Witness ==
    /\ op.name = "read_bytes_from_controller"
    /\ adapter = "GenericPCF8574T"
    /\ result = "Ok"
    /\ op.args[3] = 2
    /\ op.args[4] = <<41, 214, 230, 41, 230>>
    /\ output = <<222, 46>>

----------------------------------------------------------------------------
(* C17 *)

\* C17: read_device_data and read_address_counter on the Adafruit backpack
\* and on the dual-controller PCF8574T adapter return ReadNotSupported,
\* issue no bus transaction and no delay, and leave the signal byte, the
\* stored function, control and mode bytes and the active controller as
\* they were.
C17_ReadNotSupported ==
    [][(/\ op'.name \in {"read_device_data", "read_address_counter"}
        /\ adapter \in {"AdafruitLCDBackpack", "DualHD44780_PCF8574T"})
       => /\ result' = "ReadNotSupported"
          /\ bus' = <<>>
          /\ UNCHANGED <<bits, driver>>]_vars

\* read_address_counter on the dual adapter with the cursor on the second
\* controller
C17_Witness ==
    /\ op.name = "read_address_counter"
    /\ adapter = "DualHD44780_PCF8574T"
    /\ result = "ReadNotSupported"
    /\ active_controller = 1
    /\ bits # 0

----------------------------------------------------------------------------
(* C18 *)

\* C18: when read_address_counter succeeds on the generic PCF8574T adapter,
\* every bus write of the call has RS 0 and RW 1, the byte is read from the
\* active controller (controller 0, whose enable is bit 2), and the value
\* returned is the byte decoded from the last two reads with bit 7
\* cleared, so it lies in 0..=0x7F; when it fails no value is returned.
C18_AddressCounterMasked ==
    (op.name = "read_address_counter" /\ adapter = "GenericPCF8574T")
    => IF result = "Ok"
       THEN LET r == BytesReadIn(bus)
                decoded == (r[Len(r) - 1] \div 16) * 16 + r[Len(r)] \div 16
            IN /\ r = op.args[1]
               /\ Len(output) = 1
               /\ output[1] \in 0..127
               /\ output[1] = decoded % 128
               /\ active_controller = 0
               /\ \A i \in DOMAIN bus :
                      bus[i].kind = "write"
                      => /\ Bit(Pins(bus[i]), 0) = 0
                         /\ Bit(Pins(bus[i]), 1) = 1
                         /\ Bit(Pins(bus[i]), 3) = Bit(bits, 3)
               /\ \E i \in DOMAIN bus :
                      bus[i].kind = "write" /\ Bit(Pins(bus[i]), 2) = 1
       ELSE output = <<>>

\* the bus returned 0xDE, busy bit set, and 0x5E is returned
C18_Witness ==
    /\ op.name = "read_address_counter"
    /\ adapter = "GenericPCF8574T"
    /\ result = "Ok"
    /\ op.args[1] = <<230, 214, 121, 214, 230>>
    /\ output = <<94>>

----------------------------------------------------------------------------
(* C19 *)

\* C19: after a successful show_cursor or blink_cursor on a display with
\* more than one controller, every controller other than the active one
\* has the cursor-on flag (bit 1) and the blink-on flag (bit 0) clear, in
\* its stored control byte and in the last DISPLAY-CONTROL command it
\* received.
C19_OthersCursorAndBlinkOff ==
    (/\ op.name \in {"show_cursor", "blink_cursor"}
     /\ result = "Ok"
     /\ controller_count(adapter) > 1)
    => \A c \in 0..(controller_count(adapter) - 1) :
           c # active_controller
           => /\ Bit(display_control[c], 0) = 0
              /\ Bit(display_control[c], 1) = 0
              /\ Bit(lcd_control[c], 0) = 0
              /\ Bit(lcd_control[c], 1) = 0

\* show_cursor succeeded with the cursor on the second controller while the
\* first keeps blink-on, stored and received
C19_Reached ==
    /\ op.name = "show_cursor"
    /\ result = "Ok"
    /\ adapter = "DualHD44780_PCF8574T"
    /\ active_controller = 1
    /\ Bit(display_control[0], 0) = 1
    /\ Bit(lcd_control[0], 0) = 1

----------------------------------------------------------------------------
(* C20 *)

\* both controllers of the pair have cursor-on in the DISPLAY-CONTROL
\* commands c0 and c1
BothCursorsOn(c0, c1) == Bit(c0, 1) = 1 /\ Bit(c1, 1) = 1

\* C20: on a dual-controller display, at no point of a sequence of init,
\* set_cursor, show_cursor, blink_cursor and show_display calls, the
\* points between the bus transactions of one call and the calls the bus
\* fails included, do both controllers have the cursor-on flag set in the
\* last DISPLAY-CONTROL command each received.
C20_NeverTwoCursors ==
    [][adapter = "DualHD44780_PCF8574T"
       => \A k \in 0..Len(bus') :
              ~BothCursorsOn(LastControl(lcd_control[0], SubSeq(bus', 1, k), 0),
                             LastControl(lcd_control[1], SubSeq(bus', 1, k), 1))]_vars

\* show_cursor(true) turned the cursor of the first controller on and
\* failed before the second controller was told to turn its cursor off
C20_Reached ==
    /\ op.name = "show_cursor"
    /\ adapter = "DualHD44780_PCF8574T"
    /\ result = "I2cError"
    /\ active_controller = 0
    /\ BothCursorsOn(lcd_control[0], lcd_control[1])

----------------------------------------------------------------------------
(* C21 *)

\* the bytes controller c received in a trace, commands and data: its
\* nibbles taken two by two, 256 added to a byte sent with register select
\* high
BytesTo(trace, c) ==
    LET at == StrobesTo(trace, c)
    IN [j \in 1..(Len(at) \div 2) |->
           256 * Bit(Pins(trace[at[2 * j]]), PinRs(adapter))
           + PinNibble(adapter, Pins(trace[at[2 * j - 1]])) * 16
           + PinNibble(adapter, Pins(trace[at[2 * j]]))]

\* every nibble of a controller is strobed before any nibble of a
\* controller of higher index
InIndexOrder(trace) ==
    \A c, d \in 0..(controller_count(adapter) - 1) :
        LET sc == StrobesTo(trace, c)
            sd == StrobesTo(trace, d)
        IN (c < d /\ sc # <<>> /\ sd # <<>>) => sc[Len(sc)] < sd[1]

FanOutOps ==
    {"show_display", "scroll_left", "scroll_right", "left_to_right",
     "right_to_left", "autoscroll", "create_char"}

----------------------------------------------------------------------------
(* C22 *)

----------------------------------------------------------------------------
(* C23 *)

\* C23: after a successful right_to_left, from every prior state, every
\* controller has received one ENTRY-MODE command with the left-to-right
\* bit (0x02) clear and its stored entry-mode byte has that bit clear;
\* after a successful left_to_right the bit is set in both.
C23_RightToLeftClearsEntryLeft ==
    (op.name \in {"right_to_left", "left_to_right"} /\ result = "Ok")
    => \A c \in 0..(controller_count(adapter) - 1) :
           LET got == BytesTo(bus, c)
               want == IF op.name = "left_to_right" THEN 1 ELSE 0
           IN /\ Len(got) = 1
              /\ got[1] \div 8 = 0 /\ Bit(got[1], 2) = 1
              /\ Bit(got[1], 1) = want
              /\ Bit(display_mode[c], 1) = want

\* right_to_left succeeded after init: the controller received ENTRY-MODE
\* 0x06 and the stored byte still has the left-to-right bit
C23_Reached ==
    /\ op.name = "right_to_left"
    /\ result = "Ok"
    /\ display_mode[0] = BitOr(LCD_FLAG_ENTRYLEFT, LCD_FLAG_ENTRYSHIFTDECREMENT)
    /\ BytesTo(bus, 0) = <<6>>

----------------------------------------------------------------------------
(* C24 *)

\* C24: in every call (init, a fan-out display operation, a busy poll, a
\* read), a bus write or read the bus refuses is the last event of the
\* call and the call returns the bus error: nothing is retried and nothing
\* follows, the remaining controllers of a fan-out included; and a call
\* returns the bus error only when its last transaction was refused.
C24_BusErrorEndsOperation ==
    /\ \A i \in DOMAIN bus :
          (bus[i].kind # "delay" /\ ~bus[i].ok)
          => (i = Len(bus) /\ result = "I2cError")
    /\ result = "I2cError"
       => (bus # <<>> /\ bus[Len(bus)].kind # "delay" /\ ~bus[Len(bus)].ok)

\* clear on the two-controller display refused at the third write: the
\* first controller took one nibble, the second controller none
C24_Witness ==
    /\ op.name = "clear"
    /\ adapter = "DualHD44780_PCF8574T"
    /\ result = "I2cError"
    /\ Len(bus) = 3
    /\ ~bus[3].ok
    /\ Len(StrobesTo(bus, 0)) = 1
    /\ StrobesTo(bus, 1) = <<>>

----------------------------------------------------------------------------
(* C25 *)

\* C25: backlight(on), after every prior sequence of operations and with
\* the bus accepting the write, succeeds with exactly one bus write, whose
\* backlight bit equals `on` and in which the enable bit of every
\* controller is low; the stored function, control and mode bytes and
\* ActiveControllerIndex are as before the call.
C25_BacklightOneWriteNoEnable ==
    [][(op'.name = "backlight" /\ NoBusFault(bus'))
       => /\ result' = "Ok"
          /\ Len(bus') = 1
          /\ bus'[1].kind = "write"
          /\ Bit(Pins(bus'[1]), PinBacklight(adapter)) = BoolToU8(op'.args[1])
          /\ \A c \in 0..(controller_count(adapter) - 1) :
                Bit(Pins(bus'[1]), PinEnable(adapter, c)) = 0
          /\ UNCHANGED driver]_vars

\* backlight wrote a byte with the enable bit of the first controller high
C25_Reached ==
    /\ op.name = "backlight"
    /\ result = "Ok"
    /\ Len(bus) = 1
    /\ Bit(Pins(bus[1]), PinBacklight(adapter)) = BoolToU8(op.args[1])
    /\ Bit(Pins(bus[1]), PinEnable(adapter, 0)) = 1

----------------------------------------------------------------------------
(* C26 *)

\* C26: after a successful init(), from every prior driver state, every
\* controller c < controller_count() has the stored bytes function[c] =
\* 0x08 (4-bit, 2-line, 5x8), control[c] = 0x04 (display on, cursor off,
\* blink off) and mode[c] = 0x02 (left-to-right, no shift), and
\* ActiveControllerIndex is 0; after an init() that fails, the stored bytes
\* and ActiveControllerIndex are what they were before the call.
C26_InitStoredState ==
    [][op'.name = "init"
       => IF result' = "Ok"
          THEN /\ \A c \in 0..(controller_count(adapter) - 1) :
                     /\ display_function'[c] = 8
                     /\ display_control'[c] = 4
                     /\ display_mode'[c] = 2
               /\ active_controller' = 0
          ELSE UNCHANGED driver]_vars

\* a second init refused by the bus, on the two-controller display with
\* the cursor shown on its second controller
C26_Witness ==
    /\ op.name = "init"
    /\ result = "I2cError"
    /\ adapter = "DualHD44780_PCF8574T"
    /\ active_controller = 1
    /\ display_function[0] = 8
    /\ display_control[1] = 6

----------------------------------------------------------------------------
(* C27 *)

\* C27: after a successful home(), from every prior state,
\* ActiveControllerIndex is 0, and the call has written one command,
\* RETURN-HOME (0x02), to controller 0 and nothing to any other
\* controller; ActiveControllerIndex is still 0 when the caller has the
\* result, so that a print that follows writes to controller 0 (C22).
C27_HomeSelectsControllerZero ==
    [][/\ (op'.name = "home" /\ result' = "Ok")
          => /\ active_controller' = 0
             /\ BytesTo(bus', 0) = <<LCD_CMD_RETURNHOME>>
             /\ NumTransactions(bus') = 4
             /\ \A c \in 1..(controller_count(adapter) - 1) :
                   StrobesTo(bus', c) = <<>>
       /\ (op.name = "home" /\ result = "Ok")
          => (op' = Idle /\ active_controller' = 0)
       /\ (op'.name = "print" /\ active_controller = 0)
          => (StrobesTo(bus', 0) # <<>> \/ op'.args[1] = <<>>)]_vars

\* home succeeded on the two-controller display whose second controller
\* shows the cursor
C27_Witness ==
    /\ op.name = "home"
    /\ result = "Ok"
    /\ adapter = "DualHD44780_PCF8574T"
    /\ display_control[1] = 6
    /\ active_controller = 0
    /\ BytesTo(bus, 0) = <<2>>
    /\ BytesTo(bus, 1) = <<>>

----------------------------------------------------------------------------
(* C28 *)

\* t[i..i+5] is one busy poll of the generic adapter: the set-up write
\* (DATA high, RS 0, RW 1, ENABLE 0), ENABLE high, the bus read, ENABLE
\* low, and one more ENABLE high and low without a read
IsPoll(t, i) ==
    /\ i >= 1
    /\ i + 5 <= Len(t)
    /\ \A q \in 0..5 :
          /\ t[i + q].kind = (IF q = 2 THEN "read" ELSE "write")
          /\ t[i + q].ok
          /\ q # 2
             => LET b == Pins(t[i + q])
                IN /\ b \div 16 = 15
                   /\ Bit(b, 0) = 0
                   /\ Bit(b, 1) = 1
                   /\ Bit(b, 2) = (IF q \in {1, 4} THEN 1 ELSE 0)

\* the poll at i returned the flag clear: bit 7 of the byte read
PollClear(t, i) == Bit(t[i + 2].data[1], 7) = 0

\* where the polls of a trace start, in order
PollsIn(t) == SelectSeq([i \in 1..Len(t) |-> i], LAMBDA i : IsPoll(t, i))

\* the positions of the reads of a trace that belong to no poll: the
\* nibble reads of the data bytes
DataReadsIn(t) ==
    SelectSeq([i \in 1..Len(t) |-> i],
              LAMBDA i : t[i].kind = "read" /\ ~IsPoll(t, i - 2))

\* the statement as the specification words it: a read of N bytes issues
\* at least N polls, and a poll that returned clear immediately precedes
\* the nibble read pair of every byte (directly, or with the set-up write
\* between them).
C28_PollBeforeEveryByte ==
    (op.name = "read_bytes_from_controller" /\ result = "Ok")
    => LET polls == PollsIn(bus)
           reads == DataReadsIn(bus)
           n == op.args[3]
       IN /\ Len(reads) = 2 * n
          /\ Len(polls) >= n
          /\ \A b \in 1..n :
                \E j \in 1..Len(polls) :
                    /\ PollClear(bus, polls[j])
                    /\ polls[j] + 6 \in {reads[2 * b - 1] - 1, reads[2 * b - 1] - 2}

\* C28: read_bytes_from_controller on the generic adapter, controller 0,
\* with the bus accepting every transaction, succeeds and polls the busy
\* flag once per call, before the set-up write: the trace is k >= 1 polls
\* of which the last alone returned clear, the set-up write, and for each
\* of the N bytes of the buffer a high and a low nibble read (ENABLE high,
\* read, ENABLE low), with no poll between the bytes.
C28_PollBeforeFirstByteOnly ==
    (/\ op.name = "read_bytes_from_controller"
     /\ adapter = "GenericPCF8574T"
     /\ op.args[1] = 0)
    => LET polls == PollsIn(bus)
           reads == DataReadsIn(bus)
           k == Len(polls)
           n == op.args[3]
       IN /\ result = "Ok"
          /\ k >= 1
          /\ \A j \in 1..k :
                /\ polls[j] = 6 * (j - 1) + 1
                /\ PollClear(bus, polls[j]) <=> (j = k)
          /\ Len(bus) = 6 * k + 1 + 6 * n
          /\ bus[6 * k + 1].kind = "write"
          /\ Pins(bus[6 * k + 1]) = read_setup(bits, op.args[2])
          /\ reads = [h \in 1..(2 * n) |-> 6 * k + 3 * h]
          /\ \A h \in 1..(2 * n) :
                /\ bus[6 * k + 3 * h - 1].kind = "write"
                /\ Bit(Pins(bus[6 * k + 3 * h - 1]), 2) = 1
                /\ bus[6 * k + 3 * h + 1].kind = "write"
                /\ Bit(Pins(bus[6 * k + 3 * h + 1]), 2) = 0

\* two bytes read after a single poll
C28_Witness ==
    /\ op.name = "read_bytes_from_controller"
    /\ result = "Ok"
    /\ op.args[3] = 2
    /\ Len(PollsIn(bus)) = 1
    /\ Len(DataReadsIn(bus)) = 4
    /\ Len(output) = 2

----------------------------------------------------------------------------
(* C29 *)

\* as much of a busy poll as the trace holds from position i on
IsPollPrefix(t, i) ==
    \A q \in 0..5 :
        i + q <= Len(t)
        => /\ t[i + q].kind = (IF q = 2 THEN "read" ELSE "write")
           /\ q # 2
              => LET b == Pins(t[i + q])
                 IN /\ b \div 16 = 15
                    /\ Bit(b, 0) = 0
                    /\ Bit(b, 1) = 1
                    /\ Bit(b, 2) = (IF q \in {1, 4} THEN 1 ELSE 0)

\* as much of the data phase as the trace holds from position i on: the
\* set-up write (RW 1, ENABLE 0), then nibble reads, each ENABLE high, bus
\* read, ENABLE low
IsDataPrefix(t, i) ==
    \A q \in 0..(Len(t) - i) :
        IF q # 0 /\ q % 3 = 2
        THEN t[i + q].kind = "read"
        ELSE /\ t[i + q].kind = "write"
             /\ Bit(Pins(t[i + q]), 1) = 1
             /\ Bit(Pins(t[i + q]), 2) = (IF q % 3 = 1 THEN 1 ELSE 0)

ReadOps == {"read_bytes_from_controller", "read_device_data", "read_address_counter"}

\* C29: in every read on the generic adapter, completed or cut short by a
\* bus error, the trace starts with a busy poll; every poll whose bus read
\* returns bit 7 set (bit 3 of the high nibble, the busy flag) is followed
\* by another poll, and the set-up write and the nibble reads of the data
\* follow only the first poll that returns the bit clear.
C29_NoDataReadWhileBusy ==
    (op.name \in ReadOps /\ adapter = "GenericPCF8574T")
    => LET R == SelectSeq([i \in 1..Len(bus) |-> i],
                          LAMBDA i : bus[i].kind = "read" /\ bus[i].ok)
       IN /\ IsPollPrefix(bus, 1)
          /\ \A j \in 1..Len(R) :
                (\A h \in 1..(j - 1) : ~PollClear(bus, R[h] - 2))
                => /\ R[j] = 6 * (j - 1) + 3
                   /\ IsPollPrefix(bus, R[j] - 2)
                   /\ IF PollClear(bus, R[j] - 2)
                      THEN IsDataPrefix(bus, R[j] + 4)
                      ELSE IsPollPrefix(bus, R[j] + 4)

\* a one-byte read that polled three times: busy, busy, clear
C29_Witness ==
    /\ op.name = "read_bytes_from_controller"
    /\ result = "Ok"
    /\ op.args[3] = 1
    /\ Len(PollsIn(bus)) = 3
    /\ ~PollClear(bus, 1)
    /\ ~PollClear(bus, 7)
    /\ PollClear(bus, 13)
    /\ DataReadsIn(bus) = <<21, 24>>

----------------------------------------------------------------------------
(* C30 *)

\* C30: a read on the read-capable adapter leaves its wait loop only with
\* a poll that returns the busy flag clear or with a bus transaction that
\* is refused; a poll that returns the flag set is followed by another
\* turn of the loop, so a display that answers busy for ever keeps the
\* call polling for ever; a read that returns Ok has its buffer filled
\* from the nibble reads after the clear poll; and when the display does
\* not answer busy for ever and the bus refuses nothing, every read
\* returns.
C30_ReadTerminatesIffFlagClears ==
    /\ [][(result = "Polling" /\ result' # "Polling")
          => /\ op' = op
             /\ \/ /\ result' = "I2cError"
                   /\ ~bus'[Len(bus')].ok
                \/ /\ result' = (IF op.args[3] = 0 THEN "Ok" ELSE "Reading")
                   /\ IsPoll(bus', 1)
                   /\ PollClear(bus', 1)
                   /\ Len(bus') = 7]_vars
    /\ [][(result = "Polling" /\ IsPoll(bus', 1) /\ ~PollClear(bus', 1))
          => (result' = "Polling" /\ op' = op /\ output' = output)]_vars
    /\ [][(result = "Polling" /\ IsPoll(bus', 1) /\ PollClear(bus', 1))
          => result' # "Polling"]_vars
    /\ [][(result \in {"Polling", "Reading"} /\ result' = "Ok")
          => /\ op' = op
             /\ IsPoll(bus', 1)
             /\ PollClear(bus', 1)
             /\ Len(DataReadsIn(bus')) = 2 * op.args[3]
             /\ Len(output') = op.args[3]
             /\ \A i \in 1..op.args[3] :
                   LET r == BytesReadIn(SubSeq(bus', 7, Len(bus')))
                   IN output'[i] = (r[2 * i - 1] \div 16) * 16
                                   + r[2 * i] \div 16]_vars
    /\ (result \in {"Polling", "Reading"}) ~> (result \in {"Ok", "I2cError"})

\* a two-byte read has returned after the poll that found the flag clear
C30_Witness ==
    /\ op.name = "read_bytes_from_controller"
    /\ op.args[3] = 2
    /\ result = "Ok"
    /\ IsPoll(bus, 1)
    /\ PollClear(bus, 1)
    /\ output = <<222, 45>>

----------------------------------------------------------------------------
(* C31 *)

\* the bus events of init that precede the first controller's sequence:
\* the I/O direction write of the adapter that has the register
EventsBeforeControllers == IF adapter = "AdafruitLCDBackpack" THEN 1 ELSE 0

\* the bus events of init for one controller: 14 nibbles of two writes each
\* and three delays
EventsPerController == 2 * 14 + 3

\* C31: in every init, as far as it gets, the first eleven bus events for
\* each controller are the assert and deassert writes of nibble 0x03, a
\* delay of 5 ms, the two writes of 0x03 again, a delay of 5 ms, the two
\* writes of 0x03 a third time, a delay of 150 microseconds, and the two
\* writes of nibble 0x02: each delay stands after the deassert write of
\* one nibble and before the assert write of the next.
C31_InitHandshakeDelays ==
    [][op'.name = "init"
       => \A c \in 0..(controller_count(adapter) - 1), p \in 1..11 :
             LET i == EventsBeforeControllers + EventsPerController * c + p
             IN i \in DOMAIN bus'
                => IF p \in {3, 6, 9}
                   THEN /\ bus'[i].kind = "delay"
                        /\ bus'[i].us = (IF p = 9 THEN 150 ELSE 5000)
                   ELSE /\ bus'[i].kind = "write"
                        /\ PinNibble(adapter, Pins(bus'[i])) = (IF p < 9 THEN 3 ELSE 2)
                        /\ Bit(Pins(bus'[i]), PinEnable(adapter, c))
                              = (IF p \in {1, 4, 7, 10} THEN 1 ELSE 0)
                        /\ Bit(Pins(bus'[i]), PinRs(adapter)) = 0]_vars

\* init of the dual-controller display has run to its end: both
\* controllers had their three delays
C31_Witness ==
    /\ op.name = "init"
    /\ adapter = "DualHD44780_PCF8574T"
    /\ result = "Ok"
    /\ bus[3] = [kind |-> "delay", us |-> 5000]
    /\ bus[6] = [kind |-> "delay", us |-> 5000]
    /\ bus[9] = [kind |-> "delay", us |-> 150]
    /\ bus[34] = [kind |-> "delay", us |-> 5000]
    /\ bus[40] = [kind |-> "delay", us |-> 150]

----------------------------------------------------------------------------
(* C32 *)

\* C32, as the specification states it: in an init that succeeds, the four
\* writes that strobe CLEAR-DISPLAY or RETURN-HOME into a controller are
\* followed by a delay of 2 ms, before any further bus write.
C32_InitClearHomeSettle ==
    [][(op'.name = "init" /\ result' = "Ok")
       => \A c \in 0..(controller_count(adapter) - 1),
             i \in 0..(Len(bus') - 4),
             v \in {LCD_CMD_CLEARDISPLAY, LCD_CMD_RETURNHOME} :
             IsByteStrobe(bus', i, c, FALSE, v, Pins(bus'[i + 1]))
             => /\ i + 5 \in DOMAIN bus'
                /\ bus'[i + 5] = [kind |-> "delay", us |-> 2000]]_vars

\* init of the generic adapter has succeeded: CLEAR-DISPLAY was strobed by
\* events 24..27, RETURN-HOME by 28..31 with no delay between them, and the
\* backlight write is the next and last event
C32_Reached ==
    /\ op.name = "init"
    /\ adapter = "GenericPCF8574T"
    /\ result = "Ok"
    /\ Len(bus) = 32
    /\ IsByteStrobe(bus, 23, 0, FALSE, LCD_CMD_CLEARDISPLAY, Pins(bus[24]))
    /\ IsByteStrobe(bus, 27, 0, FALSE, LCD_CMD_RETURNHOME, Pins(bus[28]))
    /\ bus[32].kind = "write"
    /\ \A i \in 12..32 : bus[i].kind # "delay"

----------------------------------------------------------------------------
(* C33 *)

\* the last command of a trace to controller c whose opcode bit is
\* `opcode` (8: DISPLAY-CONTROL, 4: ENTRY-MODE), 0 when there is none
LastCommand(trace, c, opcode) ==
    LET cmds == SelectSeq(CommandsTo(trace, c), LAMBDA b : b \div opcode = 1)
    IN IF cmds = <<>> THEN 0 ELSE cmds[Len(cmds)]

\* C33: with the bus accepting every transaction, show_display,
\* show_cursor, blink_cursor and autoscroll write to every controller
\* exactly one command byte, the opcode ORed with the controller's stored
\* byte as the call leaves it, and nothing else; every call that writes a
\* DISPLAY-CONTROL (ENTRY-MODE) command to a controller leaves the flag
\* bits of the last one in control[c] (mode[c]) and a call that writes none
\* leaves the stored byte alone; so control[c] always equals the flag bits
\* of the last DISPLAY-CONTROL command controller c received.
C33_StoredByteIsLastCommand ==
    /\ [][(op'.name \in {"show_display", "show_cursor", "blink_cursor", "autoscroll"}
           /\ result' = "Ok")
          => /\ Len(bus') = 4 * controller_count(adapter)
             /\ \A c \in 0..(controller_count(adapter) - 1) :
                   BytesTo(bus', c) =
                       <<IF op'.name = "autoscroll"
                         THEN BitOr(LCD_CMD_ENTRYMODESET, display_mode'[c])
                         ELSE BitOr(LCD_CMD_DISPLAYCONTROL, display_control'[c])>>]_vars
    /\ [][\A c \in 0..(controller_count(adapter) - 1) :
             /\ IF LastCommand(bus', c, LCD_CMD_ENTRYMODESET) = 0
                THEN display_mode'[c] = display_mode[c]
                ELSE display_mode'[c] = LastCommand(bus', c, LCD_CMD_ENTRYMODESET) % 4
             /\ IF LastCommand(bus', c, LCD_CMD_DISPLAYCONTROL) = 0
                THEN display_control'[c] = display_control[c]
                ELSE display_control'[c]
                         = LastCommand(bus', c, LCD_CMD_DISPLAYCONTROL) % 8]_vars
    /\ [](\A c \in 0..(controller_count(adapter) - 1) :
             \/ lcd_control[c] = 0 /\ display_control[c] = 0
             \/ lcd_control[c] = BitOr(LCD_CMD_DISPLAYCONTROL, display_control[c]))

\* after init the cursor was moved to controller 1 of the two-controller
\* display and switched on, then autoscroll was switched on: controller 1
\* last received DISPLAY-CONTROL 0x0E, controller 0 0x0C, both ENTRY-MODE
\* 0x07
C33_Witness ==
    /\ adapter = "DualHD44780_PCF8574T"
    /\ op.name = "autoscroll"
    /\ result = "Ok"
    /\ BytesTo(bus, 0) = <<7>>
    /\ BytesTo(bus, 1) = <<7>>
    /\ display_mode[0] = 3
    /\ display_mode[1] = 3
    /\ lcd_control[0] = 12
    /\ lcd_control[1] = 14
    /\ display_control[1] = 6

----------------------------------------------------------------------------
(* C34 *)

\* C34: when show_display or autoscroll on the two-controller display has
\* delivered its command to controller 0 and the bus refuses one of the
\* writes for controller 1, the call ends there with the bus error and
\* nothing is undone: controller 0 has received its one command and no
\* other, both stored bytes hold the requested flag (that of controller 1
\* was stored before its command was sent), and controller 1 has received
\* no command; after show_display its last DISPLAY-CONTROL command is the
\* one it had before, so that it differs from the stored byte whenever the
\* two agreed before the call and the call changed the flag.
C34_FanOutNotRolledBack ==
    [][(/\ op'.name \in {"show_display", "autoscroll"}
        /\ adapter = "DualHD44780_PCF8574T"
        /\ result' = "I2cError"
        /\ Len(bus') > 4)
       => LET on == BoolToU8(op'.args[1])
          IN /\ Len(bus') <= 8
             /\ ~bus'[Len(bus')].ok
             /\ BytesTo(bus', 1) = <<>>
             /\ op'.name = "show_display"
                => /\ \A c \in {0, 1} :
                         display_control'[c] = SetField(display_control[c], 2, 2, on)
                   /\ BytesTo(bus', 0) =
                          <<BitOr(LCD_CMD_DISPLAYCONTROL, display_control'[0])>>
                   /\ lcd_control'[0] = BitOr(LCD_CMD_DISPLAYCONTROL, display_control'[0])
                   /\ lcd_control'[1] = lcd_control[1]
                   /\ display_mode' = display_mode
                   /\ (/\ lcd_control[1] = BitOr(LCD_CMD_DISPLAYCONTROL, display_control[1])
                       /\ Bit(display_control[1], 2) # on)
                      => lcd_control'[1] # BitOr(LCD_CMD_DISPLAYCONTROL, display_control'[1])
             /\ op'.name = "autoscroll"
                => /\ \A c \in {0, 1} :
                         display_mode'[c] = SetField(display_mode[c], 0, 0, on)
                   /\ BytesTo(bus', 0) =
                          <<BitOr(LCD_CMD_ENTRYMODESET, display_mode'[0])>>
                   /\ display_control' = display_control
                   /\ lcd_control' = lcd_control]_vars

\* after init, show_display(false) reached controller 0 and the first
\* write for controller 1 was refused: both stored bytes say display off,
\* controller 0 was told so and controller 1 still shows
C34_Witness ==
    /\ adapter = "DualHD44780_PCF8574T"
    /\ op.name = "show_display"
    /\ op.args = <<FALSE>>
    /\ result = "I2cError"
    /\ Len(bus) = 5
    /\ display_control[0] = 0
    /\ display_control[1] = 0
    /\ lcd_control[0] = 8
    /\ lcd_control[1] = 12

----------------------------------------------------------------------------
(* C35 *)

\* the backlight bit of the byte a bus write puts on the expander's pins
BacklightOf(e) == Bit(Pins(e), PinBacklight(adapter))

\* the writes of a trace that set the expander's pins: every write but the
\* I/O direction write of the Adafruit adapter
IsPinWrite(e) ==
    /\ e.kind = "write"
    /\ adapter = "AdafruitLCDBackpack" => e.data[1] = 9

\* C35: the backlight bit of the adapter's bit field is off after
\* construction, is what the call asked for after backlight, is on after
\* an init that succeeds, and is left alone by every other call and by an
\* init that fails; every byte a call writes to the expander's pins
\* carries the bit as it was before the call, but for the write of
\* backlight, which carries the value asked for, and the last write of a
\* successful init, which carries it on.
C35_BacklightBitConstant ==
    /\ Bit(bits, PinBacklight(adapter)) = 0
    /\ [][op' # Idle
          => LET before == Bit(bits, PinBacklight(adapter))
                 after == Bit(bits', PinBacklight(adapter))
                 last == Len(bus')
             IN /\ after = (IF op'.name = "backlight" THEN BoolToU8(op'.args[1])
                            ELSE IF op'.name = "init" /\ result' = "Ok" THEN 1
                            ELSE before)
                /\ \A i \in 1..last :
                      IsPinWrite(bus'[i])
                      => BacklightOf(bus'[i]) =
                            (IF i = last /\ op'.name \in {"backlight", "init"}
                             THEN after ELSE before)
                /\ op'.name = "backlight" => last = 1]_vars

\* with the backlight switched off after init, a read of the address
\* counter polled the busy flag twice and read one byte: every write of
\* the call has the backlight bit clear
C35_Witness ==
    /\ adapter = "GenericPCF8574T"
    /\ op.name = "read_address_counter"
    /\ result = "Ok"
    /\ display_function[0] # 0
    /\ Bit(bits, 3) = 0
    /\ Len(bus) = 19
    /\ \A i \in 1..19 : bus[i].kind = "write" => Bit(Pins(bus[i]), 3) = 0

----------------------------------------------------------------------------
(* C36 *)

\* C36: no byte the bus accepts from the dual-controller adapter has both
\* ENABLE1 (bit 2) and ENABLE2 (bit 1) set, whatever the calls before it
\* and wherever the bus refused a write of theirs.
C36_NeverBothEnables ==
    adapter = "DualHD44780_PCF8574T"
    => \A i \in DOMAIN bus :
          (bus[i].kind = "write" /\ bus[i].ok)
          => ~(Bit(Pins(bus[i]), 2) = 1 /\ Bit(Pins(bus[i]), 1) = 1)

\* a call set ENABLE1 in the bit field and the bus refused the write; the
\* next call, set_cursor on row 2, strobes controller 1 and every byte of
\* it carries ENABLE1 as well
C36_Reached ==
    /\ adapter = "DualHD44780_PCF8574T"
    /\ op.name = "set_cursor"
    /\ op.args = <<0, 2>>
    /\ result = "Ok"
    /\ Len(bus) = 4
    /\ bus[1].ok
    /\ Bit(Pins(bus[1]), 2) = 1
    /\ Bit(Pins(bus[1]), 1) = 1
    /\ Bit(Pins(bus[4]), 2) = 1

----------------------------------------------------------------------------
(* C37 *)

\* the DDRAM address set_cursor computes for an accepted position, before
\* the wrap of the u8 addition
CursorAddress(col, row) ==
    col + row_offsets(lcd_type)[row_to_controller_row(adapter, row)[2]]

\* C37: for every geometry, on single- and dual-controller adapters, and
\* every (col, row) set_cursor accepts, col + row_offset[local row] is at
\* most 0x7F, so the u8 addition does not wrap and the command byte the
\* controller of that row receives, 0x80 | address, has the address in its
\* low 7 bits.
C37_CursorAddressFits ==
    [][(/\ op'.name = "set_cursor"
        /\ result' \notin {"RowOutOfRange", "ColumnOutOfRange"})
       => LET col == op'.args[1]
              row == op'.args[2]
              sent == CommandsTo(bus', row_to_controller_row(adapter, row)[1])
          IN /\ col < cols(lcd_type)
             /\ row < rows(lcd_type)
             /\ CursorAddress(col, row) <= 127
             /\ result' = "Ok"
                => /\ Len(sent) = 1
                   /\ sent[1] = 128 + CursorAddress(col, row)
                   /\ sent[1] % 128 = CursorAddress(col, row)]_vars

\* the largest address of all: the last column of the fourth row of the
\* 20x4 display, 19 + 0x54 = 103, sent as 0xE7
C37_Witness ==
    /\ op.name = "set_cursor"
    /\ op.args = <<19, 3>>
    /\ lcd_type = "Lcd20x4"
    /\ adapter = "GenericPCF8574T"
    /\ result = "Ok"
    /\ CursorAddress(19, 3) = 103
    /\ CommandsTo(bus, 0) = <<231>>

----------------------------------------------------------------------------
(* C38 *)

\* the stored byte with the bits of `flag` cleared
Without(byte, flag) == BitAndNot(byte, flag)

\* the stored function, control and entry-mode bytes of every controller
StoredModes == <<display_function, display_control, display_mode>>

\* C38: show_cursor changes only bit 0x02 of control[c], blink_cursor only
\* bit 0x01, show_display only bit 0x04, autoscroll only bit 0x01 of
\* mode[c], and none of them another stored byte; no operation but init
\* changes function[c]; clear, scroll_left, scroll_right, print,
\* create_char, backlight and the read operations change no stored byte
\* and not ActiveControllerIndex.
C38_ModeOpsChangeOwnFlag ==
    [][LET Cs == 0..(MAX_CONTROLLER_COUNT - 1)
           ControlBut(flag) ==
               /\ \A c \in Cs :
                     Without(display_control'[c], flag) = Without(display_control[c], flag)
               /\ display_mode' = display_mode
               /\ active_controller' = active_controller
       IN /\ op'.name = "show_cursor" => ControlBut(LCD_FLAG_CURSORON)
          /\ op'.name = "blink_cursor" => ControlBut(LCD_FLAG_BLINKON)
          /\ op'.name = "show_display" => ControlBut(LCD_FLAG_DISPLAYON)
          /\ op'.name = "autoscroll"
             => /\ \A c \in Cs :
                      Without(display_mode'[c], LCD_FLAG_ENTRYSHIFTINCREMENT)
                      = Without(display_mode[c], LCD_FLAG_ENTRYSHIFTINCREMENT)
                /\ display_control' = display_control
                /\ active_controller' = active_controller
          /\ op'.name # "init" => display_function' = display_function
          /\ op'.name \in {"clear", "scroll_left", "scroll_right", "print",
                           "create_char", "backlight", "read_device_data",
                           "read_address_counter"}
             => /\ StoredModes' = StoredModes
                /\ active_controller' = active_controller]_vars

\* a print on the dual display after set_cursor chose controller 1 and
\* mode operations set the cursor of controller 1 and the autoscroll of
\* both: the text goes to controller 1 alone
C38_Witness ==
    /\ adapter = "DualHD44780_PCF8574T"
    /\ op.name = "print"
    /\ result = "Ok"
    /\ active_controller = 1
    /\ display_control = [c \in 0..1 |-> IF c = 1 THEN 6 ELSE 4]
    /\ display_mode = [c \in 0..1 |-> 3]
    /\ display_function[1] # 0
    /\ BytesTo(bus, 0) = <<>>
    /\ BytesTo(bus, 1) # <<>>

----------------------------------------------------------------------------
(* C39 *)

\* C39: set_cursor with in-range arguments leaves ActiveControllerIndex at
\* the controller of the row whatever the bus does: its writes, the first
\* one already, raise the enable pin of that controller, and when the bus
\* refuses one of them the call returns the bus error, the controller has
\* received no command and ActiveControllerIndex still names it; print
\* then writes its characters to the controller ActiveControllerIndex
\* names and to no other.
C39_ActiveAssignedBeforeWrite ==
    [][/\ (/\ op'.name = "set_cursor"
           /\ op'.args[2] < rows(lcd_type)
           /\ op'.args[1] < cols(lcd_type))
          => LET target == row_to_controller_row(adapter, op'.args[2])[1]
             IN /\ active_controller' = target
                /\ result' \in {"Ok", "I2cError"}
                /\ bus' # <<>>
                /\ bus'[1].kind = "write"
                /\ Bit(Pins(bus'[1]), PinEnable(adapter, target)) = 1
                /\ result' = "I2cError"
                   => /\ ~bus'[Len(bus')].ok
                      /\ CommandsTo(bus', target) = <<>>
       /\ op'.name = "print"
          => /\ active_controller' = active_controller
             /\ BytesTo(bus', active_controller)
                    = [k \in 1..Len(op'.args[1]) |-> 256 + (op'.args[1][k] % 256)]
             /\ \A c \in 0..(controller_count(adapter) - 1) :
                   c # active_controller => StrobesTo(bus', c) = <<>>]_vars

\* set_cursor to row 2 of the initialised dual display, refused by the bus
\* at the enable-low write of the first nibble: controller 1 has no
\* command and is the active controller
C39_Witness ==
    /\ adapter = "DualHD44780_PCF8574T"
    /\ op.name = "set_cursor"
    /\ op.args = <<15, 2>>
    /\ result = "I2cError"
    /\ Len(bus) = 2
    /\ bus[1].ok
    /\ ~bus[2].ok
    /\ CommandsTo(bus, 1) = <<>>
    /\ active_controller = 1
    /\ display_function[1] # 0

====
